---- MODULE Spec2Model ----
(***************************************************************************)
(* A model of the EPnP camera-pose solver of tracking.js                   *)
(* (src/build/tracking.js, tracking.EPnP).                                 *)
(*                                                                         *)
(* One call of tracking.EPnP.solve is followed through its helper calls:   *)
(* init, chooseControlPoints, computeBarycentricCoordinates, the assembly  *)
(* of the linear system and its null space, and then, for each of the      *)
(* three hypotheses, findBetasApproxN, the five Gauss-Newton iterations    *)
(* (computeAAndBGaussNewton, qr_solve, betas += X) and computeRAndT,       *)
(* the selection of N, copyRAndT and the return of solve.                  *)
(*                                                                         *)
(* Floating-point data is kept by what the control flow and the data flow  *)
(* of the code depend on:                                                  *)
(*   - an array is "zeros" (as allocated), "finite" or "nonfinite" (it     *)
(*     holds a NaN or an infinity, which every later arithmetic step       *)
(*     propagates);                                                        *)
(*   - a reprojection error is a number 0..RepMax or NaN, compared as      *)
(*     IEEE-754 compares them (every comparison with NaN is false);        *)
(*   - the vector X of gaussNewton carries the number of the iteration     *)
(*     whose qr_solve wrote it (0: still the zeros it was allocated with); *)
(*   - the object points are small integer points, so that the rank of     *)
(*     their covariance matrix (what the control points span) is exact.    *)
(* The external primitives numeric.svd, numeric.inv and numeric.solve are  *)
(* not part of the repository: on a well-posed finite input they return a  *)
(* finite result; on a singular or non-finite input they either return     *)
(* non-finite values or throw, and nothing in tracking.EPnP catches.       *)
(***************************************************************************)
EXTENDS Integers, Sequences, FiniteSets, TLC

\* The largest number of correspondences of a solve call.
MaxN == 4

\* Reprojection errors range over 0..RepMax and NaN.
RepMax == 1

\* gaussNewton: var iterations_number = 5
iterations_number == 5

\* qr_solve is called with m = 6 rows and n = 4 columns; nc is the number of
\* pivot columns it walks.
nc == 4

\* ... and nr its number of rows.
nr == 6

\* The object points a caller may pass: the origin and the three unit points.
\* Four distinct ones are not coplanar; any repetition makes the points
\* coplanar, collinear or coincident.
Pts == { <<0, 0, 0>>, <<1, 0, 0>>, <<0, 1, 0>>, <<0, 0, 1>> }

\* The inputs of a call: objectPoints of every length 0..MaxN.
Inputs == UNION { [1..len -> Pts] : len \in 0..MaxN }

-----------------------------------------------------------------------------
(* Floating-point values: a number or NaN.                                 *)

NaN == [nan |-> TRUE, v |-> 0]

Num(x) == [nan |-> FALSE, v |-> x]

\* The values a reprojection error takes in the model.
RepValues == { Num(x) : x \in 0..RepMax } \cup { NaN }

\* a < b on doubles: false as soon as one side is NaN.
Lt(a, b) == ~a.nan /\ ~b.nan /\ a.v < b.v

\* a <= b on doubles: false as soon as one side is NaN.
Le(a, b) == ~a.nan /\ ~b.nan /\ a.v <= b.v

-----------------------------------------------------------------------------
VARIABLES
  pc,                       \* the position of the call inside solve / computePose
  objectPoints,             \* the caller's list of object points
  numberOfCorrespondences,  \* instance.numberOfCorrespondences
  pws,                      \* instance.pws: the object points copied by initPoints
  cws,                      \* instance.cws: "unset", "nonfinite", "degenerate", "spanning"
  alphas,                   \* instance.alphas: "zeros", "finite", "nonfinite"
  Ut,                       \* the null-space basis: "unset", "finite", "nonfinite"
  h,                        \* the hypothesis being computed (1..3), 0 outside
  Betas,                    \* Betas[1..3]: [val, stale]
  gn,                       \* the locals of gaussNewton: k, X, and its last qr_solve
  Rs,                       \* Rs[1..3]: "zeros", "finite", "nonfinite"
  ts,                       \* ts[1..3]: "zeros", "finite", "nonfinite"
  repErrors,                \* repErrors[1..3]
  N,                        \* the selected hypothesis (0 before the selection)
  R,                        \* the output rotation of solve: [src, val]
  t,                        \* the output translation of solve: [src, val]
  result,                   \* what the caller of solve receives
  matrixOps                 \* matrix operations performed so far by the call

\* The state of one tracking.EPnP.solve call.
solveVars == << pc, objectPoints, numberOfCorrespondences, pws, cws, alphas, Ut, h,
                Betas, gn, Rs, ts, repErrors, N, R, t, result, matrixOps >>

\* One call of a barycentric-coordinates routine, with its numbers kept:
\* computeBarycentricCoordinates for one correspondence, or
\* tracking.ePnP.findBarycentricCoordenates.
VARIABLES
  baryPc,                   \* "idle", "called", "done", "thrown"
  routine,                  \* the routine called
  controlPoints,            \* the four control points
  point,                    \* the object point
  weights                   \* the four weights the routine produced

baryVars == << baryPc, routine, controlPoints, point, weights >>

\* The rotation step of one estimateRAndT call, with its numbers kept.
VARIABLES
  rotPc,                    \* "idle", "svd", "done"
  ABt_U,                    \* the left factor the svd of ABt returned
  ABt_V,                    \* the right factor the svd of ABt returned
  rotR                      \* the R that estimateRAndT wrote

rotVars == << rotPc, ABt_U, ABt_V, rotR >>

\* A caller that makes several solve calls, with the objects that outlive a
\* call: the caller's arguments and the solver instance.
VARIABLES
  callPc,                   \* "idle", "new", "run", "returned"
  callNo,                   \* the number of the current call (0: none yet)
  args,                     \* the caller's objectPoints, imagePoints, cameraMatrix
  args0,                    \* their values when the current call was made
  instance,                 \* the solver instance the current call works on
  ip,                       \* the next helper call of computePose
  foreign,                  \* fields read that the current call did not write
  observed,                 \* the (u, v) lists handed to fillM / reprojectionError
  outputs                   \* what each completed call computed

callVars == << callPc, callNo, args, args0, instance, ip, foreign, observed,
               outputs >>

\* The three hypothesis pipelines of one computePose run as three processes
\* on the one solver instance, a step being one helper call.
VARIABLES
  pipe,                     \* pipe[i]: the next helper call of pipeline i (0: not started)
  shared,                   \* instance.ccs, .pcs, .A1, .A2: the pipelines whose data each holds
  poseFrom,                 \* poseFrom[i]: the pipelines whose data Rs[i], ts[i] were computed from
  readsOther                \* readsOther[i]: fields pipeline i read as another pipeline left them

concVars == << pipe, shared, poseFrom, readsOther >>

\* The animation-frame loop of tracking.trackVideo_ on one video element.
VARIABLES
  videoStarted,             \* trackVideo_ has been called for the element
  readyState,               \* element.readyState (0..4)
  pendingCallbacks,         \* callbacks requested for the next animation frame
  frame,                    \* animation frames that have run their callbacks
  trackCalls,               \* calls of tracker.track made so far
  lastCallback              \* what the last callback found and did

videoVars == << videoStarted, readyState, pendingCallbacks, frame, trackCalls,
                lastCallback >>

\* The scan of one pivot column by qr_solve, with its numbers kept.
VARIABLES
  scanPc,                   \* "idle", "scan", "zeroPivot", "reflect"
  column,                   \* column[i] = A[i][k], rows i = 0..nr-1, when column k is reached
  pivot,                    \* k
  scanI,                    \* i of the scan loop
  ppAik1,                   \* the row that ppAik1[0] reads
  eta,                      \* eta
  rowsRead                  \* the rows whose entry the scan has read

scanVars == << scanPc, column, pivot, scanI, ppAik1, eta, rowsRead >>

\* The assembly of the linear system M by computePose (one fillM call for
\* each correspondence), with its numbers kept.
VARIABLES
  fillPc,                   \* "idle", "fill", "done"
  fillArgs,                 \* instance.alphas, .us, .fu, .fv, .uc, .vc of the call
  fillI,                    \* i of the loop of computePose
  Mdata,                    \* M: the Float64Array(2 * n * 12), cell by cell
  Mwrites                   \* the index of every store into M made so far, in order

fillVars == << fillPc, fillArgs, fillI, Mdata, Mwrites >>

\* The null-space basis on its way through computePose: svd and
\* transposeSquare, computeL6x10, computeRho and computeCCS, with their
\* numbers kept.
VARIABLES
  basisPc,                  \* "idle", "svd", "transposeSquare", "computeL6x10", "computeRho", "computeCCS", "done"
  basisArgs,                \* what numeric.svd returned as U, instance.cws, and the betas
  UtData,                   \* Ut: the Float64Array(12 * 12), cell by cell
  l6x10Locals,              \* v and dv of computeL6x10, and the (a, b) of its rounds
  L_6x10,                   \* L_6x10: the Float64Array(6 * 10)
  Rho,                      \* Rho: the Float64Array(6)
  ccsData                   \* instance.ccs as computeCCS left it

basisVars == << basisPc, basisArgs, UtData, l6x10Locals, L_6x10, Rho, ccsData >>

\* One computeAAndBGaussNewton call, with its numbers kept.
VARIABLES
  jacPc,                    \* "idle", "called", "done"
  jacArgs,                  \* l_6x10, Rho and betas of the call
  gnA,                      \* A: the 6 x 4 array the call fills
  gnB                       \* b: the 6 x 1 array the call fills

jacVars == << jacPc, jacArgs, gnA, gnB >>

\* computePCS and solveForSign of one computeRAndT call, with their numbers
\* kept (each number a double: [nan, v]).
VARIABLES
  signPc,                   \* "idle", "computePCS", "solveForSign", "done"
  signArgs,                 \* instance.alphas (a row for each correspondence) and instance.ccs
  beforeSign,               \* instance.pcs and .ccs when solveForSign is entered
  afterSign                 \* instance.pcs and .ccs as they are now

signVars == << signPc, signArgs, beforeSign, afterSign >>

\* One findBetasApproxN call from the solution B of its reduced system on,
\* with its numbers kept (each a double: finite, infinite or NaN).
VARIABLES
  seedPc,                   \* "idle", "solved", "done"
  seedArgs,                 \* the variant N (1..3) and B (B4, B3 or B5)
  seedBetas                 \* betas[0..3]

seedVars == << seedPc, seedArgs, seedBetas >>

\* One tracking.ePnP.estimatePose call (src/src/EPnP.js) and the caller's
\* list of keypoint matches.
VARIABLES
  estPc,                    \* "idle", "pop", "system", "returned", "thrown"
  keypointMatches,          \* the caller's list, which the call works on
  matchesAtCall,            \* the list as it was when the call was made
  estI,                     \* i of the loop of estimatePose
  controlPointsTaken        \* the matches pushed to controlPoints / projecterControlPoints

estVars == << estPc, keypointMatches, matchesAtCall, estI, controlPointsTaken >>

\* A tracking.KeypointTracker (src/src/tracker/human/human.js) and the
\* track calls made on it.
VARIABLES
  trackerPc,                \* "none", "constructed"
  templateReady,            \* what this.template_.isReady() returns
  previousPose_,            \* this.previousPose_
  trackerCalls,             \* track calls made so far
  lastTrack                 \* the last track call: its path, previousPose_ before it, what it returned

trackerVars == << trackerPc, templateReady, previousPose_, trackerCalls, lastTrack >>

\* One tracking.ePnP.oneDimesionalKernel call (src/src/EPnP.js), with its
\* numbers kept.
VARIABLES
  kernelPc,                 \* "idle", "loop", "returned"
  kernelArgs,               \* eigenVectors (as findNullEigenVectors returned them) and controlPoints
  kernelK,                  \* k of the loop
  dividend,                 \* dividend
  divisor,                  \* divisor
  kernelResult              \* the returned vector: its entries are num[i] / den

kernelVars == << kernelPc, kernelArgs, kernelK, dividend, divisor, kernelResult >>

\* The helper calls followed one at a time with their numbers kept.
helperVars == << fillVars, basisVars, jacVars, signVars, seedVars, estVars,
                trackerVars, kernelVars >>

\* The variable groups of the callers and loops followed on their own.
firstVars == << baryVars, rotVars, callVars, concVars, videoVars, scanVars >>

\* The fields of a solver instance (this.* in tracking.EPnP.prototype).
Fields == { "uc", "vc", "fu", "fv", "numberOfCorrespondences", "pws", "us",
            "alphas", "pcs", "max_nr", "cws", "ccs", "A1", "A2" }

\* What the actions of a solve call leave alone.
auxVars == << firstVars, helperVars >>

vars == << solveVars, auxVars >>

Hyps == 1..3

\* new Float64Array(4) for each hypothesis: zeros, nothing stale added.
NewBetas == [val |-> "zeros", stale |-> FALSE]

\* gaussNewton before its first iteration: X = new Float64Array(4).
NewGN == [k |-> 0, X |-> [by |-> 0, val |-> "zeros"], zeroPivot |-> FALSE,
          ret |-> "none", abCalls |-> 0, qrCalls |-> 0, updates |-> 0]

\* var R = new Float64Array(3 * 3), t = new Float64Array(3)
NewOut == [src |-> 0, val |-> "zeros"]

NoResult == [kind |-> "none"]

Init ==
  /\ pc = "idle"
  /\ objectPoints = << >>
  /\ numberOfCorrespondences = 0
  /\ pws = << >>
  /\ cws = "unset"
  /\ alphas = "zeros"
  /\ Ut = "unset"
  /\ h = 0
  /\ Betas = [i \in Hyps |-> NewBetas]
  /\ gn = NewGN
  /\ Rs = [i \in Hyps |-> "zeros"]
  /\ ts = [i \in Hyps |-> "zeros"]
  /\ repErrors = [i \in Hyps |-> Num(0)]
  /\ N = 0
  /\ R = NewOut
  /\ t = NewOut
  /\ result = NoResult
  /\ matrixOps = 0
  /\ baryPc = "idle"
  /\ routine = "none"
  /\ controlPoints = << >>
  /\ point = << >>
  /\ weights = [fin |-> TRUE, num |-> << 0, 0, 0, 0 >>, den |-> 1]
  /\ rotPc = "idle"
  /\ ABt_U = [i \in 1..3 |-> [j \in 1..3 |-> 0]]
  /\ ABt_V = [i \in 1..3 |-> [j \in 1..3 |-> 0]]
  /\ rotR = [i \in 1..3 |-> [j \in 1..3 |-> 0]]
  /\ callPc = "idle"
  /\ callNo = 0
  /\ args = [objectPoints |-> << >>, imagePoints |-> << >>, cameraMatrix |-> << >>]
  /\ args0 = [objectPoints |-> << >>, imagePoints |-> << >>, cameraMatrix |-> << >>]
  /\ instance = [by |-> [f \in Fields |-> 0], max_nr |-> -1, pws |-> << >>, us |-> << >>,
                 uc |-> 0, vc |-> 0, fu |-> 0, fv |-> 0]
  /\ ip = 0
  /\ foreign = {}
  /\ observed = [fillM |-> << >>, reprojectionError |-> << >>]
  /\ outputs = << >>
  /\ pipe = [i \in Hyps |-> 0]
  /\ shared = [ccs |-> {}, pcs |-> {}, A1 |-> {}, A2 |-> {}]
  /\ poseFrom = [i \in Hyps |-> {}]
  /\ readsOther = [i \in Hyps |-> {}]
  /\ videoStarted = FALSE
  /\ readyState = 0
  /\ pendingCallbacks = 0
  /\ frame = 0
  /\ trackCalls = 0
  /\ lastCallback = [ready |-> FALSE, tracked |-> 0, scheduled |-> 0]
  /\ scanPc = "idle"
  /\ column = [i \in 0..(nr - 1) |-> 0]
  /\ pivot = 0
  /\ scanI = 0
  /\ ppAik1 = 0
  /\ eta = 0
  /\ rowsRead = {}
  /\ fillPc = "idle"
  /\ fillArgs = [alphas |-> << >>, us |-> << >>, camera |-> << 0, 0, 0, 0 >>]
  /\ fillI = 0
  /\ Mdata = << >>
  /\ Mwrites = << >>
  /\ basisPc = "idle"
  /\ basisArgs = [u |-> << >>, cws |-> << >>, betas |-> << >>]
  /\ UtData = << >>
  /\ l6x10Locals = [v |-> << >>, dv |-> << >>, pairs |-> << >>]
  /\ L_6x10 = << >>
  /\ Rho = << >>
  /\ ccsData = << >>
  /\ jacPc = "idle"
  /\ jacArgs = [l_6x10 |-> << >>, Rho |-> << >>, betas |-> << >>]
  /\ gnA = << >>
  /\ gnB = << >>
  /\ signPc = "idle"
  /\ signArgs = [alphas |-> << >>, ccs |-> << >>]
  /\ beforeSign = [pcs |-> << >>, ccs |-> << >>]
  /\ afterSign = [pcs |-> << >>, ccs |-> << >>]
  /\ seedPc = "idle"
  /\ seedArgs = [variant |-> 0, B |-> << >>]
  /\ seedBetas = << >>
  /\ estPc = "idle"
  /\ keypointMatches = << >>
  /\ matchesAtCall = << >>
  /\ estI = 0
  /\ controlPointsTaken = << >>
  /\ trackerPc = "none"
  /\ templateReady = FALSE
  /\ previousPose_ = [kind |-> "undefined"]
  /\ trackerCalls = 0
  /\ lastTrack = [path |-> "none", matches |-> 0, before |-> [kind |-> "undefined"],
                  returned |-> [kind |-> "undefined"]]
  /\ kernelPc = "idle"
  /\ kernelArgs = [eigenVectors |-> << >>, controlPoints |-> << >>]
  /\ kernelK = 0
  /\ dividend = 0
  /\ divisor = 0
  /\ kernelResult = [num |-> << >>, den |-> 1]

-----------------------------------------------------------------------------
(* tracking.EPnP.solve, entry: new tracking.EPnP() and EPnP.init(...).     *)
(* init takes numberOfCorrespondences from objectPoints.length and copies  *)
(* the points; no length is tested.                                        *)

initPoints(points) == [i \in 1..Len(points) |-> points[i]]

Solve(points) ==
  /\ pc = "idle"
  /\ objectPoints' = points
  /\ numberOfCorrespondences' = Len(points)
  /\ pws' = initPoints(points)
  /\ cws' = "unset"
  /\ alphas' = "zeros"
  /\ Ut' = "unset"
  /\ h' = 0
  /\ Betas' = [i \in Hyps |-> NewBetas]
  /\ gn' = NewGN
  /\ Rs' = [i \in Hyps |-> "zeros"]
  /\ ts' = [i \in Hyps |-> "zeros"]
  /\ repErrors' = [i \in Hyps |-> Num(0)]
  /\ N' = 0
  /\ R' = NewOut
  /\ t' = NewOut
  /\ result' = NoResult
  /\ matrixOps' = 0
  /\ pc' = "chooseControlPoints"
  /\ UNCHANGED auxVars

-----------------------------------------------------------------------------
(* chooseControlPoints.  C0 is the centroid of the object points; C1..C3   *)
(* are C0 + sqrt(DC[i-1] / n) * (row i-1 of UCt), where DC and UCt are the  *)
(* singular values and vectors of PW0tPW0, the 3x3 covariance of the       *)
(* centred points.                                                         *)

RECURSIVE SumCoord(_, _, _)
\* the sum of coordinate j over the first m points: cws[0*3 + j] += pws[3*i + j]
SumCoord(points, m, j) ==
  IF m = 0 THEN 0 ELSE points[m][j] + SumCoord(points, m - 1, j)

\* PW0[3*i + j] = pws[3*i + j] - cws[0*3 + j], every entry multiplied by n
\* so that the division of the centroid by n stays in the integers.
PW0(points) ==
  LET n == Len(points)
  IN  [i \in 1..n |-> [j \in 1..3 |-> n * points[i][j] - SumCoord(points, n, j)]]

RECURSIVE SumProd(_, _, _, _)
\* dst[i*n + j] += src[k*n+i]*src[k*n+j] over the first m rows k
SumProd(src, m, i, j) ==
  IF m = 0 THEN 0 ELSE src[m][i] * src[m][j] + SumProd(src, m - 1, i, j)

\* mulTransposed(src, m, 3, dst, 1): dst = srct x src
mulTransposed(src) ==
  [i \in 1..3 |-> [j \in 1..3 |-> SumProd(src, Len(src), i, j)]]

\* The determinant of a 3x3 matrix.
Det3(M) ==
    M[1][1] * M[2][2] * M[3][3] + M[1][2] * M[2][3] * M[3][1]
  + M[1][3] * M[2][1] * M[3][2] - M[1][3] * M[2][2] * M[3][1]
  - M[1][2] * M[2][1] * M[3][3] - M[1][1] * M[2][3] * M[3][2]

\* svd(PW0tPW0, 3, 3, DC, UCt, 0): the smallest singular value DC[2] of the
\* symmetric matrix is zero exactly when its determinant (the product of
\* the three singular values) is zero.
SmallestSingularValueIsZero(G) == Det3(G) = 0

\* The control points that chooseControlPoints leaves in instance.cws.
\*   n = 0: cws[0*3 + j] /= 0 gives NaN, and so does k = sqrt(0 / 0);
\*   DC[2] = 0: k = 0 for i = 3, so C3 = C0 and the columns C1-C0, C2-C0,
\*     C3-C0 (each k times a row of the orthogonal UCt) are dependent;
\*   otherwise the three columns are independent.
chooseControlPoints(points) ==
  IF Len(points) = 0 THEN "nonfinite"
  ELSE IF SmallestSingularValueIsZero(mulTransposed(PW0(points))) THEN "degenerate"
  ELSE "spanning"

ChooseControlPoints ==
  /\ pc = "chooseControlPoints"
  /\ cws' = chooseControlPoints(pws)
  /\ matrixOps' = matrixOps + 2        \* mulTransposed and svd
  /\ pc' = "computeBarycentricCoordinates"
  /\ UNCHANGED << objectPoints, numberOfCorrespondences, pws, alphas, Ut, h,
                  Betas, gn, Rs, ts, repErrors, N, R, t, result >>
  /\ UNCHANGED auxVars

\* An exception leaves computePose and solve (neither catches): the caller
\* gets the exception instead of a value.
Thrown == [kind |-> "exception"]

-----------------------------------------------------------------------------
(* computeBarycentricCoordinates.  cc = [C1-C0 | C2-C0 | C3-C0] is handed   *)
(* to invertSquare (numeric.inv) without any test of its determinant, and  *)
(* the weights are computed from whatever comes back.                      *)

\* What invertSquare(cc, 3, ccInv) can do for the control points in cws.
invertSquare(c) ==
  IF c = "spanning" THEN {"finite"} ELSE {"nonfinite", "throws"}

ComputeBarycentricCoordinates ==
  /\ pc = "computeBarycentricCoordinates"
  /\ \E ccInv \in invertSquare(cws) :
       IF ccInv = "throws"
       THEN /\ pc' = "thrown"
            /\ result' = Thrown
            /\ UNCHANGED alphas
       ELSE /\ pc' = "nullSpace"
            /\ alphas' = ccInv       \* alphas[a + 1 + j] = ccInv[..] * (pws[..] - cws[..])
            /\ UNCHANGED result
  /\ matrixOps' = matrixOps + 1        \* the inversion
  /\ UNCHANGED << objectPoints, numberOfCorrespondences, pws, cws, Ut, h,
                  Betas, gn, Rs, ts, repErrors, N, R, t >>
  /\ UNCHANGED auxVars

-----------------------------------------------------------------------------
(* computePose, lines 742-761: fillM for every correspondence, MtM, its    *)
(* svd, transposeSquare, computeL6x10 and computeRho.                      *)

\* What svd(MtM, 12, 12, D, Ut, 0) can do for a matrix built from alphas.
svdMtM(a) ==
  IF a = "finite" THEN {"finite"} ELSE {"nonfinite", "throws"}

NullSpace ==
  /\ pc = "nullSpace"
  /\ \E u \in svdMtM(alphas) :
       IF u = "throws"
       THEN /\ pc' = "thrown"
            /\ result' = Thrown
            /\ UNCHANGED << Ut, h >>
       ELSE /\ pc' = "findBetas"
            /\ Ut' = u
            /\ h' = 1
            /\ UNCHANGED result
  /\ matrixOps' = matrixOps + 2        \* mulTransposed and svd
  /\ UNCHANGED << objectPoints, numberOfCorrespondences, pws, cws, alphas,
                  Betas, gn, Rs, ts, repErrors, N, R, t >>
  /\ UNCHANGED auxVars

-----------------------------------------------------------------------------
(* findBetasApprox1 / 2 / 3: the reduced system is solved by               *)
(* solveLinearSystem (numeric.solve on the normal equations) and the seed  *)
(* is taken from its solution B.                                           *)

\* The seeds findBetasApproxN can leave in betas for a basis Ut:
\*   a finite solution B gives a finite seed, or (Approx1, Approx3) a
\*     non-finite one when betas[0] = sqrt(B[0]) is 0 and other components
\*     are divided by it;
\*   singular normal equations, or a non-finite L_6x10, give a non-finite
\*     solution B, and so a non-finite seed, or make numeric.solve throw.
findBetasApprox(u) ==
  IF u = "finite" THEN {"finite", "nonfinite", "throws"} ELSE {"nonfinite", "throws"}

FindBetas ==
  /\ pc = "findBetas"
  /\ \E seed \in findBetasApprox(Ut) :
       IF seed = "throws"
       THEN /\ pc' = "thrown"
            /\ result' = Thrown
            /\ UNCHANGED << Betas, gn >>
       ELSE /\ pc' = "gaussNewton"
            /\ Betas' = [Betas EXCEPT ![h] = [val |-> seed, stale |-> FALSE]]
            /\ gn' = NewGN
            /\ UNCHANGED result
  /\ matrixOps' = matrixOps + 1        \* the linear solve
  /\ UNCHANGED << objectPoints, numberOfCorrespondences, pws, cws, alphas, Ut,
                  h, Rs, ts, repErrors, N, R, t >>
  /\ UNCHANGED auxVars

-----------------------------------------------------------------------------
(* gaussNewton and qr_solve.                                               *)

\* The pivot columns at which qr_solve can find eta === 0 for the matrix A
\* that computeAAndBGaussNewton builds from betas (0: at no column).  A
\* non-finite beta makes every entry of A, and so every eta, non-finite.
ZeroPivotColumns(betasVal) ==
  IF betasVal = "finite" THEN 0..nc ELSE {0}

\* qr_solve(A, 6, 4, B, X), for A whose first pivot column with eta === 0 is
\* colZero (0: none), called in iteration k with X as the previous calls
\* left it.  At a zero pivot it sets A1[k] = A2[k] = 0.0 and returns: X is
\* not written and no value is returned.  Otherwise it ends after the back
\* substitution, X written; no value is returned either.
qr_solve(colZero, betasVal, X, k) ==
  IF colZero # 0
  THEN [X |-> X, zeroPivot |-> TRUE, ret |-> "undefined"]
  ELSE [X |-> [by |-> k, val |-> betasVal], zeroPivot |-> FALSE, ret |-> "undefined"]

\* for (i = 0; i < 4; i++) betas[i] += X[i], in iteration k: X is stale
\* when it was not written by this iteration's qr_solve.
addX(betas, X, k) ==
  [val   |-> IF betas.val = "nonfinite" \/ X.val = "nonfinite"
             THEN "nonfinite" ELSE "finite",
   stale |-> betas.stale \/ X.by # k]

\* gaussNewton's loop with the test k < iterations_number && !zeroPivot: it
\* would leave at the first qr_solve call that stopped at a zero pivot.
gaussNewtonContinues_untilZeroPivot(k, out) ==
  k < iterations_number /\ ~out.zeroPivot

\* for (var k = 0; k < iterations_number; k++): after an iteration the loop
\* goes on by its counter alone; nothing that qr_solve did (out) is tested.
gaussNewtonContinues(k, out) == k < iterations_number

\* One more call counted; the count stops one above iterations_number.
counted(c) == IF c <= iterations_number THEN c + 1 ELSE c

\* A loop counter that is not advanced.
increment_stuck(k) == k

\* k++
increment(k) == k + 1

\* One iteration of the loop of gaussNewton: computeAAndBGaussNewton,
\* qr_solve, betas += X.  gn.k is the number of iterations completed.
GaussNewtonIteration ==
  /\ pc = "gaussNewton"
  /\ gn.k < iterations_number
  /\ \E colZero \in ZeroPivotColumns(Betas[h].val) :
       LET k   == increment(gn.k)
           out == qr_solve(colZero, Betas[h].val, gn.X, k)
       IN  /\ Betas' = [Betas EXCEPT ![h] = addX(Betas[h], out.X, k)]
           /\ gn' = [k |-> k, X |-> out.X, zeroPivot |-> out.zeroPivot,
                     ret |-> out.ret, abCalls |-> counted(gn.abCalls),
                     qrCalls |-> counted(gn.qrCalls),
                     updates |-> counted(gn.updates)]
           /\ pc' = IF gaussNewtonContinues(k, out) THEN "gaussNewton"
                                                   ELSE "computeRAndT"
  /\ UNCHANGED << objectPoints, numberOfCorrespondences, pws, cws, alphas, Ut,
                  h, Rs, ts, repErrors, N, R, t, result, matrixOps >>
  /\ UNCHANGED auxVars

-----------------------------------------------------------------------------
(* computeRAndT: computeCCS, computePCS, solveForSign, estimateRAndT (an    *)
(* svd of the 3x3 cross-covariance) and reprojectionError.                 *)

\* What estimateRAndT can write to R and t for the refined betas.
estimateRAndT(betasVal, u) ==
  IF betasVal = "finite" /\ u = "finite" THEN {"finite"} ELSE {"nonfinite", "throws"}

\* The values reprojectionError(R, t) can return.  With a finite pose the
\* error is a number, or NaN when a point has depth 0 (inv_Zc = 1.0 / 0) and
\* Xc or Yc is 0 as well; with a non-finite pose it is NaN.
reprojectionError(pose) ==
  IF pose = "finite" THEN RepValues ELSE {NaN}

ComputeRAndT ==
  /\ pc = "computeRAndT"
  /\ \E pose \in estimateRAndT(Betas[h].val, Ut) :
       IF pose = "throws"
       THEN /\ pc' = "thrown"
            /\ result' = Thrown
            /\ UNCHANGED << Rs, ts, repErrors, h, gn >>
       ELSE /\ Rs' = [Rs EXCEPT ![h] = pose]
            /\ gn' = NewGN              \* the locals of gaussNewton are gone
            /\ ts' = [ts EXCEPT ![h] = pose]
            /\ \E e \in reprojectionError(pose) :
                 repErrors' = [repErrors EXCEPT ![h] = e]
            /\ IF h < 3
               THEN h' = h + 1 /\ pc' = "findBetas"
               ELSE h' = 0 /\ pc' = "select"
            /\ UNCHANGED result
  /\ matrixOps' = matrixOps + 1        \* the 3x3 svd
  /\ UNCHANGED << objectPoints, numberOfCorrespondences, pws, cws, alphas, Ut,
                  Betas, N, R, t >>
  /\ UNCHANGED auxVars

-----------------------------------------------------------------------------
(* computePose, lines 780-788: the choice of N and copyRAndT.              *)

\* chooseN with <= in place of <: a tie moves N to the later hypothesis.
chooseN_le(errs) ==
  LET N1 == IF Le(errs[2], errs[1]) THEN 2 ELSE 1
  IN  IF Le(errs[3], errs[N1]) THEN 3 ELSE N1

\* var N = 1; if (repErrors[2] < repErrors[1]) N = 2;
\* if (repErrors[3] < repErrors[N]) N = 3;
chooseN(errs) ==
  LET N1 == IF Lt(errs[2], errs[1]) THEN 2 ELSE 1
  IN  IF Lt(errs[3], errs[N1]) THEN 3 ELSE N1

\* copyRAndT(Rs[N], ts[N], R, t)
copyRAndT(src, n) == [src |-> n, val |-> src[n]]

SelectHypothesis ==
  /\ pc = "select"
  /\ N' = chooseN(repErrors)
  /\ R' = copyRAndT(Rs, N')
  /\ t' = copyRAndT(ts, N')
  /\ pc' = "log"
  /\ UNCHANGED << objectPoints, numberOfCorrespondences, pws, cws, alphas, Ut,
                  h, Betas, gn, Rs, ts, repErrors, result, matrixOps >>
  /\ UNCHANGED auxVars

-----------------------------------------------------------------------------
(* tracking.EPnP.solve, lines 1369-1381: R and t are written to the        *)
(* console and the function ends without a return statement.               *)

\* The value of the call expression tracking.EPnP.solve(...).
solveReturnValue(r, tr, e) == [kind |-> "undefined"]

Return ==
  /\ pc = "log"
  /\ result' = solveReturnValue(R, t, repErrors[N])
  /\ pc' = "returned"
  /\ UNCHANGED << objectPoints, numberOfCorrespondences, pws, cws, alphas, Ut,
                  h, Betas, gn, Rs, ts, repErrors, N, R, t, matrixOps >>
  /\ UNCHANGED auxVars

Next ==
  \/ \E points \in Inputs : Solve(points)
  \/ ChooseControlPoints
  \/ ComputeBarycentricCoordinates
  \/ NullSpace
  \/ FindBetas
  \/ GaussNewtonIteration
  \/ ComputeRAndT
  \/ SelectHypothesis
  \/ Return

Spec == Init /\ [][Next]_vars

-----------------------------------------------------------------------------
(* Properties.                                                             *)

\* The call has chosen N and copied Rs[N], ts[N] to its output.
Selected == pc \in {"log", "returned"}

\* Hypothesis i failed: one of its qr_solve calls stopped at a zero pivot
\* (betas then took the X that call left untouched), or its betas or its
\* reprojection error are not numbers.
Failed(i) == Betas[i].stale \/ Betas[i].val = "nonfinite" \/ repErrors[i].nan

\* Every hypothesis of the call got a finite pose from estimateRAndT: no
\* svd was given a non-finite matrix.
PosesFinite == \A i \in Hyps : Rs[i] = "finite" /\ ts[i] = "finite"

\* C1: the hypothesis N whose (R, t) is copied to the output has a
\* reprojection error <= the error of each hypothesis.  It is stated for the
\* calls in which every pose is finite and against every hypothesis whose
\* error is a number; the claim implies it.
C1_ReturnedErrorIsLowest ==
  (Selected /\ PosesFinite) =>
    \A k \in Hyps : ~repErrors[k].nan => Le(repErrors[N], repErrors[k])

\* C2: the caller of tracking.EPnP.solve receives the winning hypothesis's
\* rotation, translation and reprojection error as the result of the call
\* (stated for the calls in which every pose is finite).
C2_SolveHandsBackPose ==
  (pc = "returned" /\ PosesFinite) =>
    /\ result.kind = "pose"
    /\ result.R = R
    /\ result.t = t
    /\ result.error = repErrors[N]

\* C4: when some hypothesis failed and some other succeeded, the selected
\* hypothesis is one that succeeded, whichever position the failure is in
\* (stated for the calls in which every pose is finite).
C4_FailedHypothesisNeverSelected ==
  (/\ Selected
   /\ PosesFinite
   /\ \E i \in Hyps : Failed(i)
   /\ \E i \in Hyps : ~Failed(i))
    => ~Failed(N)

\* C5: a call with fewer than 4 correspondences performs no matrix work and
\* ends with an error handed to the caller.
C5_TooFewCorrespondencesRejected ==
  (pc # "idle" /\ numberOfCorrespondences < 4) =>
    /\ matrixOps = 0
    /\ pc \in {"returned", "thrown"} => result.kind = "exception"

\* C6: a qr_solve call that stops at a zero pivot hands its caller an
\* outcome that differs from the outcome of a call that solved the system.
C6_ZeroPivotReported ==
  gn.zeroPivot => gn.ret # qr_solve(0, "finite", gn.X, gn.k).ret

\* C7: the X left by a qr_solve call that stopped at a zero pivot is never
\* added to betas, and a hypothesis with such a call is not the selected one.
C7_ZeroPivotOutputDiscarded ==
  /\ \A i \in Hyps : ~Betas[i].stale
  /\ Selected => ~Betas[N].stale

\* C8: when [c1-c0 | c2-c0 | c3-c0] is not invertible, the barycentric step
\* ends with an error and produces no barycentric weights (stated for the
\* calls with at least 4 correspondences).
C8_SingularBasisFails ==
  (/\ numberOfCorrespondences >= 4
   /\ cws = "degenerate"
   /\ pc # "computeBarycentricCoordinates") =>
    /\ alphas = "zeros"
    /\ result.kind = "exception"

\* C9: when all three hypotheses failed, the caller is handed a failure and
\* no (R, t) is written to the output (stated for the calls in which every
\* pose is finite).
C9_AllHypothesesFailedSurfaced ==
  (pc = "returned" /\ PosesFinite /\ \A i \in Hyps : Failed(i)) =>
    /\ result.kind = "exception"
    /\ R.src = 0
    /\ t.src = 0

\* C10: when two or more hypotheses share the lowest reprojection error
\* (an error <= each of the three errors), the selected one is the earliest
\* of them; in particular Approx1 when all three errors are equal.
C10_TiesFavorEarliest ==
  Selected =>
    LET lowest == { i \in Hyps : \A k \in Hyps : Le(repErrors[i], repErrors[k]) }
    IN  Cardinality(lowest) >= 2 => (N \in lowest /\ \A i \in lowest : N <= i)

\* C10 witness: Approx2 and Approx3 tie below Approx1, and Approx2 is returned.
C10_TieReturned ==
  /\ pc = "returned"
  /\ repErrors[1] = Num(1)
  /\ repErrors[2] = Num(0)
  /\ repErrors[3] = Num(0)
  /\ N = 2

-----------------------------------------------------------------------------
(* gaussNewton's iteration count, and the termination of solve.            *)

\* C17: every gaussNewton call performs exactly 5 iterations, each with one
\* computeAAndBGaussNewton, one qr_solve and one update betas += X: inside
\* the loop fewer than 5 are completed, when the call has returned exactly 5
\* are, whatever the qr_solve calls did (a zero-pivot return included).
C17_ExactlyFiveIterations ==
  /\ pc = "gaussNewton" =>
       /\ gn.k < 5
       /\ gn.abCalls = gn.k /\ gn.qrCalls = gn.k /\ gn.updates = gn.k
  /\ pc = "computeRAndT" =>
       /\ gn.k = 5
       /\ gn.abCalls = 5 /\ gn.qrCalls = 5 /\ gn.updates = 5

\* C17 witness: a gaussNewton call has returned after its 5 iterations
\* although its first qr_solve call stopped at a zero pivot (the X added in
\* iteration 1 was the untouched one) and its last one did too.
C17_FiveIterationsDespiteZeroPivot ==
  /\ pc = "computeRAndT"
  /\ gn.k = 5
  /\ gn.zeroPivot
  /\ gn.X.by = 0
  /\ Betas[h].stale

\* The scheduling of one call: JavaScript runs the call to its end, so a
\* step that is possible is eventually taken.
FairSpec == Spec /\ WF_vars(Next)

\* C18: a solve call with n >= 4 correspondences terminates: once begun it
\* reaches its end (the return of solve, or an exception leaving it).
C18_SolveTerminates ==
  (pc = "chooseControlPoints" /\ numberOfCorrespondences >= 4)
    ~> (pc \in {"returned", "thrown"})

\* C18 witness: a call with 4 correspondences has run through the three
\* hypotheses and returned.
C18_ReturnedWithFour ==
  /\ pc = "returned"
  /\ numberOfCorrespondences = 4
  /\ N \in Hyps

-----------------------------------------------------------------------------
(* The barycentric weights, with their numbers kept.                       *)
(* A weight is the quotient num / den of two integers, so the arithmetic   *)
(* is exact; the four weights of a point share the denominator, which is   *)
(* the determinant of the matrix that is inverted.  fin = FALSE stands for *)
(* weights that are not finite numbers: a division by a zero determinant   *)
(* gives +-Infinity or NaN, and the products and sums that follow keep the *)
(* result non-finite (Infinity * 0, Infinity - Infinity are NaN).          *)

\* The points the control points and the object point are drawn from.
BaryPts == { <<0, 0, 0>>, <<1, 0, 0>>, <<0, 1, 0>>, <<0, 0, 2>> }

\* What the actions of a barycentric-coordinates call leave alone.
BaryFrame == UNCHANGED << solveVars, rotVars, callVars, concVars, videoVars,
                             scanVars,
                          helperVars >>

BaryCall(r, c, p) ==
  /\ baryPc = "idle"
  /\ routine' = r
  /\ controlPoints' = c
  /\ point' = p
  /\ baryPc' = "called"
  /\ UNCHANGED weights
  /\ BaryFrame

\* cc[3 * i + j - 1] = cws[j * 3 + i] - cws[0 * 3 + i]
cc(c) == [i \in 1..3 |-> [j \in 1..3 |-> c[j + 1][i] - c[1][i]]]

\* The inverse of a 3x3 matrix is its adjugate divided by its determinant;
\* this is the adjugate (the transposed matrix of cofactors).
Adjugate3(M) ==
  LET nx(i) == (i % 3) + 1
      cof(r, k) == M[nx(r)][nx(k)] * M[nx(nx(r))][nx(nx(k))]
                   - M[nx(r)][nx(nx(k))] * M[nx(nx(r))][nx(k)]
  IN  [i \in 1..3 |-> [j \in 1..3 |-> cof(j, i)]]

\* alphas[a + 1 + j] = ccInv[3*j] * (pws[pi] - cws[0]) + ccInv[3*j + 1] * ...
\* as numerators over the determinant, for the inverse numerators inv.
weightNumerator(inv, c0, p, j) ==
    inv[j][1] * (p[1] - c0[1]) + inv[j][2] * (p[2] - c0[2])
  + inv[j][3] * (p[3] - c0[3])

\* alphas[a + 0] = 1.0 - alphas[a + 1] - alphas[a + 2] - alphas[a + 3],
\* as a numerator over den.
remainingWeight(den, n1, n2, n3) == den - n1 - n2 - n3

\* The loop body of computeBarycentricCoordinates, lines 652-663, for the
\* correspondence p and the inverse ccInv ("finite": adjugate / determinant).
alphasOf(c, p, ccInv) ==
  LET det == Det3(cc(c))
      inv == Adjugate3(cc(c))
      n1  == weightNumerator(inv, c[1], p, 1)
      n2  == weightNumerator(inv, c[1], p, 2)
      n3  == weightNumerator(inv, c[1], p, 3)
  IN  IF ccInv = "finite"
      THEN [fin |-> TRUE, num |-> << remainingWeight(det, n1, n2, n3), n1, n2, n3 >>,
            den |-> det]
      ELSE [fin |-> FALSE, num |-> << 0, 0, 0, 0 >>, den |-> 0]

\* computeBarycentricCoordinates for one correspondence: invertSquare is
\* given cc whatever its determinant is.
BarycentricCoordinatesOfPoint ==
  /\ baryPc = "called"
  /\ routine = "computeBarycentricCoordinates"
  /\ \E ccInv \in invertSquare(IF Det3(cc(controlPoints)) # 0 THEN "spanning"
                                                             ELSE "degenerate") :
       IF ccInv = "throws"
       THEN baryPc' = "thrown" /\ UNCHANGED weights
       ELSE /\ baryPc' = "done"
            /\ weights' = alphasOf(controlPoints, point, ccInv)
  /\ UNCHANGED << routine, controlPoints, point >>
  /\ BaryFrame

\* TData[j][i] = controlPointsMatrix[i][j][0] - controlPointsMatrix[3][j][0]
TData(c) == [j \in 1..3 |-> [i \in 1..3 |-> c[i][j] - c[4][j]]]

\* tracking.Matrix.prototype.determinant3by3_
determinant3by3(data) ==
    data[1][1] * data[2][2] * data[3][3]
  + data[2][1] * data[3][2] * data[1][3]
  + data[3][1] * data[1][2] * data[2][3]
  - data[1][3] * data[2][2] * data[3][1]
  - data[2][3] * data[3][2] * data[1][1]
  - data[3][3] * data[1][2] * data[2][1]

\* tracking.Matrix.prototype.invert3by3: the numerators of resultData; each
\* is divided by determinant3by3_(), which is not tested against 0.
invert3by3(data) ==
  << <<   data[2][2] * data[3][3] - data[3][2] * data[2][3],
        -(data[1][2] * data[3][3] - data[1][3] * data[3][2]),
          data[1][2] * data[2][3] - data[1][3] * data[2][2] >>,
     << -(data[2][1] * data[3][3] - data[2][3] * data[3][1]),
          data[1][1] * data[3][3] - data[1][3] * data[3][1],
        -(data[1][1] * data[2][3] - data[1][3] * data[2][1]) >>,
     <<   data[2][1] * data[3][2] - data[2][2] * data[3][1],
        -(data[1][1] * data[3][2] - data[1][2] * data[3][1]),
          data[1][1] * data[2][2] - data[1][2] * data[2][1] >> >>

\* tracking.ePnP.findBarycentricCoordenates(point, controlPoints):
\* result = T.invert3by3().multiply(point - controlPoints[3]) and
\* [result[0], result[1], result[2], 1 - result[0] - result[1] - result[2]].
findBarycentricCoordenates(p, c) ==
  LET det == determinant3by3(TData(c))
      inv == invert3by3(TData(c))
      r1  == weightNumerator(inv, c[4], p, 1)
      r2  == weightNumerator(inv, c[4], p, 2)
      r3  == weightNumerator(inv, c[4], p, 3)
  IN  IF det # 0
      THEN [fin |-> TRUE, num |-> << r1, r2, r3, remainingWeight(det, r1, r2, r3) >>,
            den |-> det]
      ELSE [fin |-> FALSE, num |-> << 0, 0, 0, 0 >>, den |-> 0]

FindBarycentricCoordenates ==
  /\ baryPc = "called"
  /\ routine = "findBarycentricCoordenates"
  /\ weights' = findBarycentricCoordenates(point, controlPoints)
  /\ baryPc' = "done"
  /\ UNCHANGED << routine, controlPoints, point >>
  /\ BaryFrame

NextBary ==
  \/ \E r \in {"computeBarycentricCoordinates", "findBarycentricCoordenates"} :
       \E c \in [1..4 -> BaryPts] : \E p \in BaryPts : BaryCall(r, c, p)
  \/ BarycentricCoordinatesOfPoint
  \/ FindBarycentricCoordenates

SpecBary == Init /\ [][NextBary]_vars

\* The four weights are numbers whose sum is 1.
SumsToOne(w) == w.fin /\ w.num[1] + w.num[2] + w.num[3] + w.num[4] = w.den

\* C11: the four barycentric weights a routine produced for a correspondence
\* sum to 1, whatever the control points and the object point are.
C11_WeightsSumToOne ==
  baryPc = "done" => SumsToOne(weights)

-----------------------------------------------------------------------------
(* estimateRAndT, lines 863-879: R from the factors of the svd of ABt.     *)
(* The factors are drawn from the orthogonal matrices with integer         *)
(* entries (the 48 signed permutation matrices), 24 of determinant +1 and  *)
(* 24 of determinant -1, so that R is computed exactly.                    *)

\* The orthogonal 3x3 matrices with integer entries.
Orthogonal3 ==
  { [i \in 1..3 |-> [j \in 1..3 |-> IF j = q[i] THEN sg[i] ELSE 0]] :
      q \in { f \in [1..3 -> 1..3] : \A a, b \in 1..3 : f[a] = f[b] => a = b },
      sg \in [1..3 -> {-1, 1}] }

\* What the actions of an estimateRAndT call leave alone.
RotFrame == UNCHANGED << solveVars, baryVars, callVars, concVars, videoVars,
                            scanVars,
                         helperVars >>

\* instance.svd(ABt, 3, 3, ABt_D, ABt_U, ABt_V) returns the factors U and V.
EstimateSvd(U, V) ==
  /\ rotPc = "idle"
  /\ ABt_U' = U
  /\ ABt_V' = V
  /\ rotPc' = "svd"
  /\ UNCHANGED rotR
  /\ RotFrame

\* dot(v1, 3 * i, v2, 3 * j): the product of row i of v1 and row j of v2.
dot(v1, i, v2, j) == v1[i][1] * v2[j][1] + v1[i][2] * v2[j][2] + v1[i][3] * v2[j][3]

\* if (det < 0) with the negation left out.
negateThirdRowIfImproper_never(M) == M

\* if (det < 0) { R[2*3 + 0] = -R[2*3 + 0]; R[2*3 + 1] = ...; R[2*3 + 2] = ... }
negateThirdRowIfImproper(M) ==
  IF Det3(M) < 0
  THEN [i \in 1..3 |-> [j \in 1..3 |-> IF i = 3 THEN -M[i][j] ELSE M[i][j]]]
  ELSE M

\* R[i*3 + j] = dot(ABt_U, 3 * i, ABt_V, 3 * j), then the test of det.
rotationOf(U, V) ==
  negateThirdRowIfImproper([i \in 1..3 |-> [j \in 1..3 |-> dot(U, i, V, j)]])

EstimateRotation ==
  /\ rotPc = "svd"
  /\ rotR' = rotationOf(ABt_U, ABt_V)
  /\ rotPc' = "done"
  /\ UNCHANGED << ABt_U, ABt_V >>
  /\ RotFrame

NextRot ==
  \/ \E U \in Orthogonal3 : \E V \in Orthogonal3 : EstimateSvd(U, V)
  \/ EstimateRotation

SpecRot == Init /\ [][NextRot]_vars

\* The rows of M are orthonormal: M * Mt is the identity.
Orthonormal(M) ==
  \A i, j \in 1..3 : dot(M, i, M, j) = (IF i = j THEN 1 ELSE 0)

\* C12: the R written by estimateRAndT from orthogonal factors U and V has
\* determinant +1 and orthonormal rows; in particular its determinant is
\* not negative.
C12_ProperRotation ==
  rotPc = "done" => (Det3(rotR) = 1 /\ Orthonormal(rotR))

\* C12 witness: U * Vt had determinant -1 (its third row was negated) and R
\* was written.
C12_ImproperProductWritten ==
  /\ rotPc = "done"
  /\ Det3([i \in 1..3 |-> [j \in 1..3 |-> dot(ABt_U, i, ABt_V, j)]]) = -1
  /\ Det3(rotR) = 1

-----------------------------------------------------------------------------
(* Several solve calls of one caller.  What a call computes is followed by *)
(* where its data comes from: every field of the solver instance carries   *)
(* the number of the call that wrote it (0: never written), and each       *)
(* helper call of computePose is a set of fields it reads and a set of     *)
(* fields it writes.  init and initPoints are followed with their numbers. *)

\* The largest number of solve calls of the caller.
MaxCalls == 3

\* The argument lists of a call: four correspondences and a camera matrix
\* [fu 0 uc; 0 fv vc; 0 0 1], the identity or one with fu = 2, fv = 3 and
\* the principal point (1, 1).
ObjectPointLists ==
  { << [x |-> 0, y |-> 0, z |-> 0], [x |-> 1, y |-> 0, z |-> 0],
       [x |-> 0, y |-> 1, z |-> 0], [x |-> 0, y |-> 0, z |-> 1] >>,
    << [x |-> 1, y |-> 1, z |-> 0], [x |-> 1, y |-> 0, z |-> 0],
       [x |-> 0, y |-> 1, z |-> 0], [x |-> 0, y |-> 0, z |-> 1] >> }

ImagePointLists ==
  { << [x |-> 0, y |-> 0], [x |-> 1, y |-> 0], [x |-> 0, y |-> 1], [x |-> 1, y |-> 2] >>,
    << [x |-> 2, y |-> 1], [x |-> 1, y |-> 0], [x |-> 0, y |-> 1], [x |-> 1, y |-> 1] >> }

CameraMatrices ==
  { << 1, 0, 0,  0, 1, 0,  0, 0, 1 >>, << 2, 0, 1,  0, 3, 1,  0, 0, 1 >> }

Arguments ==
  [objectPoints : ObjectPointLists, imagePoints : ImagePointLists,
   cameraMatrix : CameraMatrices]

\* What the actions of the caller leave alone.
CallFrame == UNCHANGED << solveVars, baryVars, rotVars, concVars, videoVars,
                             scanVars,
                          helperVars >>

\* A solver instance that is the previous call's instance.
newEPnP_reused(prev) == prev

\* new tracking.EPnP(): an object with no field set, whatever the previous
\* call's instance (prev) holds.
newEPnP(prev) ==
  [by |-> [f \in Fields |-> 0], max_nr |-> -1, pws |-> << >>, us |-> << >>,
   uc |-> 0, vc |-> 0, fu |-> 0, fv |-> 0]

\* tracking.EPnP.solve(objectPoints, imagePoints, cameraMatrix), line 1364:
\* var EPnP = new tracking.EPnP().
SolveCall(a) ==
  /\ callPc \in {"idle", "returned"}
  /\ callNo < MaxCalls
  /\ callNo' = callNo + 1
  /\ args' = a
  /\ args0' = a
  /\ instance' = newEPnP(instance)
  /\ ip' = 0
  /\ foreign' = {}
  /\ observed' = [fillM |-> << >>, reprojectionError |-> << >>]
  /\ callPc' = "new"
  /\ UNCHANGED outputs
  /\ CallFrame

\* initCameraParameters: uc, vc, fu, fv from cameraMatrix[0*3 + 2],
\* [1*3 + 2], [0*3 + 0], [1*3 + 1].
initCameraParameters(cameraMatrix) ==
  [uc |-> cameraMatrix[3], vc |-> cameraMatrix[6],
   fu |-> cameraMatrix[1], fv |-> cameraMatrix[5]]

\* pws[3*i], pws[3*i + 1], pws[3*i + 2] = objectPoints[i].x, .y, .z
initPointsPws(points) ==
  [i \in 1..Len(points) |-> << points[i].x, points[i].y, points[i].z >>]

\* us[2*i] = imagePoints[i].x * fu + uc; us[2*i + 1] = imagePoints[i].y * fv + vc
initPointsUs(imagePoints, cam) ==
  [i \in 1..Len(imagePoints) |->
     << imagePoints[i].x * cam.fu + cam.uc, imagePoints[i].y * cam.fv + cam.vc >>]

\* initPoints storing the pixel coordinates back into imagePoints[i].
initPointsStores_inPlace(a, cam) ==
  [objectPoints |-> a.objectPoints,
   imagePoints  |-> [i \in 1..Len(a.imagePoints) |->
                       [x |-> initPointsUs(a.imagePoints, cam)[i][1],
                        y |-> initPointsUs(a.imagePoints, cam)[i][2]]],
   cameraMatrix |-> a.cameraMatrix,
   pws |-> initPointsPws(a.objectPoints),
   us  |-> initPointsUs(a.imagePoints, cam)]

\* What the arrays hold after initPoints: its loop assigns to pws[...] and
\* us[...] only; objectPoints[i], imagePoints[i] and cameraMatrix are read.
initPointsStores(a, cam) ==
  [objectPoints |-> a.objectPoints,
   imagePoints  |-> a.imagePoints,
   cameraMatrix |-> a.cameraMatrix,
   pws |-> initPointsPws(a.objectPoints),
   us  |-> initPointsUs(a.imagePoints, cam)]

\* The fields init assigns (initCameraParameters included).
initWrites ==
  { "uc", "vc", "fu", "fv", "numberOfCorrespondences", "pws", "us", "alphas",
    "pcs", "max_nr" }

\* EPnP.init(objectPoints, imagePoints, cameraMatrix)
InitInstance ==
  /\ callPc = "new"
  /\ LET cam == initCameraParameters(args.cameraMatrix)
         st  == initPointsStores(args, cam)
     IN  /\ instance' = [by |-> [f \in Fields |-> IF f \in initWrites THEN callNo
                                                   ELSE instance.by[f]],
                         max_nr |-> 0, pws |-> st.pws, us |-> st.us,
                         uc |-> cam.uc, vc |-> cam.vc, fu |-> cam.fu, fv |-> cam.fv]
         /\ args' = [objectPoints |-> st.objectPoints, imagePoints |-> st.imagePoints,
                     cameraMatrix |-> st.cameraMatrix]
  /\ ip' = 1
  /\ callPc' = "run"
  /\ UNCHANGED << callNo, args0, foreign, observed, outputs >>
  /\ CallFrame

\* The helper calls of computePose in the order it makes them: the prelude,
\* then per hypothesis the five qr_solve calls of gaussNewton and the five
\* helpers of computeRAndT.  (findBetasApproxN, computeL6x10 and
\* computeAAndBGaussNewton touch no field of the instance.)
HypothesisCalls ==
  [i \in 1..iterations_number |-> "qr_solve"]
    \o << "computeCCS", "computePCS", "solveForSign", "estimateRAndT",
          "reprojectionError" >>

Program ==
  << "chooseControlPoints", "computeBarycentricCoordinates", "fillM", "computeRho" >>
    \o HypothesisCalls \o HypothesisCalls \o HypothesisCalls

\* instance.max_nr < nr, with nr = 6 (undefined < 6 is false).
NeedsScratch(inst) == inst.max_nr >= 0 /\ inst.max_nr < 6

\* The fields a helper reads before it has written them itself.
Reads(helper, inst) ==
  CASE helper = "chooseControlPoints" -> {"numberOfCorrespondences", "pws"}
    [] helper = "computeBarycentricCoordinates" ->
         {"alphas", "cws", "pws", "numberOfCorrespondences"}
    [] helper = "fillM" ->
         {"numberOfCorrespondences", "alphas", "us", "fu", "fv", "uc", "vc"}
    [] helper = "computeRho" -> {"cws"}
    [] helper = "qr_solve" ->
         IF NeedsScratch(inst) THEN {"max_nr"} ELSE {"max_nr", "A1", "A2"}
    [] helper = "computeCCS" -> {}
    [] helper = "computePCS" -> {"alphas", "ccs", "numberOfCorrespondences"}
    [] helper = "solveForSign" -> {"pcs", "ccs", "numberOfCorrespondences"}
    [] helper = "estimateRAndT" -> {"numberOfCorrespondences", "pcs", "pws"}
    [] helper = "reprojectionError" ->
         {"pws", "us", "uc", "vc", "fu", "fv", "numberOfCorrespondences"}

\* The fields a helper assigns, or whose array it stores to.
Writes(helper, inst) ==
  CASE helper = "chooseControlPoints" -> {"cws"}
    [] helper = "computeBarycentricCoordinates" -> {"alphas"}
    [] helper = "fillM" -> {}
    [] helper = "computeRho" -> {}
    [] helper = "qr_solve" ->
         IF NeedsScratch(inst) THEN {"max_nr", "A1", "A2"} ELSE {}
    [] helper = "computeCCS" -> {"ccs"}
    [] helper = "computePCS" -> {"pcs"}
    [] helper = "solveForSign" -> {"pcs", "ccs"}
    [] helper = "estimateRAndT" -> {}
    [] helper = "reprojectionError" -> {}

\* One helper call of computePose.
HelperCall ==
  /\ callPc = "run"
  /\ ip <= Len(Program)
  /\ LET helper == Program[ip]
         w == Writes(helper, instance)
     IN  /\ foreign' = foreign \cup
                         { << f, instance.by[f] >> :
                             f \in { g \in Reads(helper, instance) :
                                       instance.by[g] # callNo } }
         /\ instance' = [instance EXCEPT
                           !.by = [f \in Fields |-> IF f \in w THEN callNo ELSE @[f]],
                           !.max_nr = IF "max_nr" \in w THEN 6 ELSE @]
         /\ observed' = IF helper \in {"fillM", "reprojectionError"}
                        THEN [observed EXCEPT ![helper] = instance.us]
                        ELSE observed
  /\ ip' = ip + 1
  /\ UNCHANGED << callPc, callNo, args, args0, outputs >>
  /\ CallFrame

\* The pose a call computes is a function of the arguments it was given and
\* of whatever it read that it had not written itself.
poseOf(a, readFromOthers) == [of |-> a, foreign |-> readFromOthers]

\* The end of solve.
ReturnFromCall ==
  /\ callPc = "run"
  /\ ip = Len(Program) + 1
  /\ outputs' = Append(outputs, [args |-> args0, pose |-> poseOf(args0, foreign)])
  /\ callPc' = "returned"
  /\ UNCHANGED << callNo, args, args0, instance, ip, foreign, observed >>
  /\ CallFrame

NextCalls ==
  \/ \E a \in Arguments : SolveCall(a)
  \/ InitInstance
  \/ HelperCall
  \/ ReturnFromCall

SpecCalls == Init /\ [][NextCalls]_vars

\* C13: two solve calls with identical inputs compute identical (R, t),
\* whatever calls ran before or between them: a call starts computePose on
\* an instance that holds nothing written by another call, it reads no field
\* that it has not written itself, and completed calls with equal arguments
\* computed equal poses.
C13_CallsAreIndependent ==
  /\ callPc = "run" => \A f \in Fields : instance.by[f] \in {0, callNo}
  /\ foreign = {}
  /\ \A i, j \in 1..Len(outputs) :
       outputs[i].args = outputs[j].args => outputs[i].pose = outputs[j].pose

\* C13 witness: three calls are complete, the first and the third with the
\* same arguments, and another call with a different camera between them.
C13_SameInputsAroundAnotherCall ==
  /\ callPc = "returned"
  /\ Len(outputs) = 3
  /\ outputs[1].args = outputs[3].args
  /\ outputs[2].args.cameraMatrix # outputs[1].args.cameraMatrix
  /\ outputs[1].pose = outputs[3].pose

\* C15: after a solve call, objectPoints, imagePoints and cameraMatrix have
\* the length and the element values they had when the call was made (and
\* they have them at every step of the call).
C15_InputsUnchanged ==
  callPc # "idle" =>
    /\ args = args0
    /\ Len(args.objectPoints) = Len(args0.objectPoints)
    /\ Len(args.imagePoints) = Len(args0.imagePoints)
    /\ Len(args.cameraMatrix) = Len(args0.cameraMatrix)

\* C15 witness: a call with a camera matrix that is not the identity (so the
\* values written to us differ from the image points) has returned.
C15_ReturnedWithScalingCamera ==
  /\ callPc = "returned"
  /\ args0.cameraMatrix[1] = 2
  /\ instance.us[1] # << args0.imagePoints[1].x, args0.imagePoints[1].y >>
  /\ args.imagePoints = args0.imagePoints

\* C16: the (u, v) of correspondence i that enter the rows of the linear
\* system (fillM) and the reprojection error are the caller's
\* imagePoints[i].x and imagePoints[i].y themselves.
C16_ObservedAreImagePoints ==
  /\ observed.fillM # << >> =>
       \A i \in 1..Len(args0.imagePoints) :
         observed.fillM[i] = << args0.imagePoints[i].x, args0.imagePoints[i].y >>
  /\ observed.reprojectionError # << >> =>
       \A i \in 1..Len(args0.imagePoints) :
         observed.reprojectionError[i]
           = << args0.imagePoints[i].x, args0.imagePoints[i].y >>

-----------------------------------------------------------------------------
(* The three hypothesis pipelines run concurrently.  computePose runs them *)
(* one after another; here each is a process of its own on the same solver *)
(* instance, and a step is one helper call.  Each pipeline has its own     *)
(* betas, Rs[i] and ts[i]; instance.ccs, instance.pcs and the scratch      *)
(* arrays A1, A2 are the instance's.  A datum is followed by the set of    *)
(* pipelines whose betas it was computed from.                             *)

\* What the actions of the pipelines leave alone.
ConcFrame == UNCHANGED << solveVars, baryVars, rotVars, callVars, videoVars,
                             scanVars,
                          helperVars >>

\* The helper calls of one pipeline: findBetasApproxN, then those of
\* gaussNewton and computeRAndT.
PipelineCalls == << "findBetasApprox" >> \o HypothesisCalls

\* computePose has run its prelude (lines 739-766) and the pipelines begin.
StartPipelines ==
  /\ \A i \in Hyps : pipe[i] = 0
  /\ pipe' = [i \in Hyps |-> 1]
  /\ shared' = [ccs |-> {}, pcs |-> {}, A1 |-> {}, A2 |-> {}]
  /\ UNCHANGED << poseFrom, readsOther >>
  /\ ConcFrame

\* The instance's arrays after pipeline i ran helper on them.
\*   qr_solve stores A1[k], A2[k] for each column before it reads them;
\*   computeCCS assigns a new array computed from betas to instance.ccs;
\*   computePCS assigns a new array computed from instance.alphas and
\*     instance.ccs to instance.pcs;
\*   solveForSign tests pcs[2] and negates instance.ccs and instance.pcs.
sharedAfter(helper, i, sh) ==
  CASE helper = "qr_solve"     -> [sh EXCEPT !.A1 = {i}, !.A2 = {i}]
    [] helper = "computeCCS"   -> [sh EXCEPT !.ccs = {i}]
    [] helper = "computePCS"   -> [sh EXCEPT !.pcs = sh.ccs]
    [] helper = "solveForSign" -> [sh EXCEPT !.ccs = sh.ccs \cup sh.pcs]
    [] OTHER -> sh

\* The instance's arrays that helper reads as it finds them.
sharedReads(helper) ==
  CASE helper = "computePCS"    -> {"ccs"}
    [] helper = "solveForSign"  -> {"ccs", "pcs"}
    [] helper = "estimateRAndT" -> {"pcs"}
    [] OTHER -> {}

\* One helper call of pipeline i.
PipelineStep(i) ==
  /\ pipe[i] \in 1..Len(PipelineCalls)
  /\ LET helper == PipelineCalls[pipe[i]]
     IN  /\ shared' = sharedAfter(helper, i, shared)
         /\ readsOther' =
              [readsOther EXCEPT ![i] =
                 @ \cup { f \in sharedReads(helper) : shared[f] # {i} }]
         /\ poseFrom' = IF helper = "estimateRAndT"
                        THEN [poseFrom EXCEPT ![i] = shared.pcs]
                        ELSE poseFrom
  /\ pipe' = [pipe EXCEPT ![i] = @ + 1]
  /\ ConcFrame

NextConc ==
  \/ StartPipelines
  \/ \E i \in Hyps : PipelineStep(i)

SpecConc == Init /\ [][NextConc]_vars

\* Pipeline i has made all its helper calls.
PipelineDone(i) == pipe[i] = Len(PipelineCalls) + 1

\* C14: run concurrently, each pipeline obtains the (R, t, error) it obtains
\* when the three run one after another (one computed from its own betas
\* alone), and reads no instance.ccs or instance.pcs left by another one.
C14_PipelinesIndependent ==
  \A i \in Hyps :
    /\ readsOther[i] = {}
    /\ PipelineDone(i) => poseFrom[i] = {i}

-----------------------------------------------------------------------------
(* tracking.trackVideo_: the requestAnimationFrame loop.  A callback runs  *)
(* to its end before anything else does; tracker.track and the canvas      *)
(* calls are taken to return (the callback has no try / catch).            *)

\* The largest number of animation frames followed.
MaxFrames == 6

\* element.HAVE_ENOUGH_DATA of an HTMLMediaElement.
HAVE_ENOUGH_DATA == 4

\* What the actions of the loop leave alone.
VideoFrame == UNCHANGED << solveVars, baryVars, rotVars, callVars, concVars,
                           scanVars,
                           helperVars >>

\* tracking.trackVideo_(element, tracker), called by tracking.track: it
\* makes its canvas and requests one animation-frame callback.
TrackVideo ==
  /\ ~videoStarted
  /\ videoStarted' = TRUE
  /\ pendingCallbacks' = pendingCallbacks + 1
  /\ UNCHANGED << readyState, frame, trackCalls, lastCallback >>
  /\ VideoFrame

\* The video element loads, stalls or seeks between two frames.
ReadyStateChange(rs) ==
  /\ readyState # rs
  /\ readyState' = rs
  /\ UNCHANGED << videoStarted, pendingCallbacks, frame, trackCalls, lastCallback >>
  /\ VideoFrame

\* The callback with its call of trackVideo_ inside the if.
scheduledByCallback_whenReady(ready) == IF ready THEN 1 ELSE 0

\* The callbacks one callback requests: its last statement, outside the if,
\* is tracking.trackVideo_(element, tracker), which requests one.
scheduledByCallback(ready) == 1

\* The calls of tracker.track one callback makes: trackCanvas_ (one call of
\* tracker.track) inside if (element.readyState === element.HAVE_ENOUGH_DATA).
trackedByCallback(ready) == IF ready THEN 1 ELSE 0

\* An animation frame: the browser runs the callbacks requested for it.
AnimationFrame ==
  /\ pendingCallbacks > 0
  /\ frame < MaxFrames
  /\ LET ready == (readyState = HAVE_ENOUGH_DATA)
     IN  /\ trackCalls' = trackCalls + pendingCallbacks * trackedByCallback(ready)
         /\ pendingCallbacks' = pendingCallbacks * scheduledByCallback(ready)
         /\ lastCallback' = [ready |-> ready, tracked |-> trackedByCallback(ready),
                             scheduled |-> scheduledByCallback(ready)]
  /\ frame' = frame + 1
  /\ UNCHANGED << videoStarted, readyState >>
  /\ VideoFrame

NextVideo ==
  \/ TrackVideo
  \/ \E rs \in 0..4 : ReadyStateChange(rs)
  \/ AnimationFrame

SpecVideo == Init /\ [][NextVideo]_vars

-----------------------------------------------------------------------------
(* qr_solve, lines 1159-1176: the scan of pivot column k for eta.          *)
(* ppAik1 starts at A[k][k]; each round of the loop reads ppAik1[0] and    *)
(* then moves ppAik1 one row down (subarray(nc)).                          *)

\* The values an entry of the column takes.
Entries == {-1, 0, 2}

\* What the actions of the scan leave alone.
ScanFrame == UNCHANGED << solveVars, baryVars, rotVars, callVars, concVars,
                          videoVars,
                          helperVars >>

\* Math.abs
Abs(x) == IF x < 0 THEN -x ELSE x

\* qr_solve reaches pivot column k of a matrix whose column k is col:
\* var ppAik1 = ppAkk, eta = Math.abs(ppAik1[0]); i = k + 1.
ScanColumn(col, k) ==
  /\ scanPc = "idle"
  /\ column' = col
  /\ pivot' = k
  /\ ppAik1' = k
  /\ eta' = Abs(col[k])
  /\ rowsRead' = {k}
  /\ scanI' = k + 1
  /\ scanPc' = "scan"
  /\ ScanFrame

\* One round of for (i = k + 1; i < nr; i++): elt = Math.abs(ppAik1[0]);
\* if (eta < elt) eta = elt; ppAik1 = ppAik1.subarray(nc).
ScanRound ==
  /\ scanPc = "scan"
  /\ scanI < nr
  /\ LET elt == Abs(column[ppAik1])
     IN  eta' = IF eta < elt THEN elt ELSE eta
  /\ rowsRead' = rowsRead \cup {ppAik1}
  /\ ppAik1' = ppAik1 + 1
  /\ scanI' = scanI + 1
  /\ UNCHANGED << scanPc, column, pivot >>
  /\ ScanFrame

\* The end of the loop: if (eta === 0) { A1[k] = A2[k] = 0.0; return; }
\* else the reflector of column k is computed.
ScanEnd ==
  /\ scanPc = "scan"
  /\ scanI = nr
  /\ scanPc' = IF eta = 0 THEN "zeroPivot" ELSE "reflect"
  /\ UNCHANGED << column, pivot, scanI, ppAik1, eta, rowsRead >>
  /\ ScanFrame

NextScan ==
  \/ \E col \in [0..(nr - 1) -> Entries] : \E k \in 0..(nc - 1) : ScanColumn(col, k)
  \/ ScanRound
  \/ ScanEnd

SpecScan == Init /\ [][NextScan]_vars

\* The largest |A[i][k]| over the rows i = k .. nr-1.
ColumnMax(col, k) ==
  CHOOSE x \in { Abs(col[i]) : i \in k..(nr - 1) } :
    \A i \in k..(nr - 1) : Abs(col[i]) <= x

\* C20: when the scan of pivot column k has ended, eta is the largest
\* |A[i][k]| over the rows i = k .. m-1, the last row included, and the
\* zero-pivot return is taken exactly when all those entries are zero.
C20_EtaIsColumnMax ==
  scanPc \in {"zeroPivot", "reflect"} =>
    /\ eta = ColumnMax(column, pivot)
    /\ (scanPc = "zeroPivot") <=> (\A i \in pivot..(nr - 1) : column[i] = 0)

-----------------------------------------------------------------------------
(* computePose, lines 742-746, and fillM: the assembly of the linear       *)
(* system.  M = new Float64Array(2 * n * 12) is all zeros; fillM is called *)
(* once for each correspondence i with row = 2 * i, as = alphas,           *)
(* offset = 4 * i, u = us[2 * i], v = us[2 * i + 1].  The arrays are flat  *)
(* and indexed from 0 in the code; alphas and us are sequences here        *)
(* (index + 1), M keeps its indices.                                       *)

\* The largest number of correspondences of an assembly.
MaxFill == 2

\* The weight rows (alphas[4*i .. 4*i+3]) and observations (us[2*i], us[2*i+1])
\* of a correspondence, and the intrinsics << fu, fv, uc, vc >>.
AlphaRows == { << 1, 0, 0, 0 >>, << 2, -1, 3, -3 >>, << -1, 1, 1, 0 >> }
UVs == { << 0, 0 >>, << 1, 2 >>, << 3, -1 >> }
Intrinsics == { << 1, 1, 0, 0 >>, << 2, 3, 1, 1 >> }

\* A list of rows laid out one after the other, as instance.alphas (width 4)
\* and instance.us (width 2) are.
Flat(rows, width) ==
  [j \in 1..(width * Len(rows)) |-> rows[((j - 1) \div width) + 1][((j - 1) % width) + 1]]

\* instance.alphas, instance.us and the intrinsics when computePose starts.
FillArguments ==
  UNION { { [alphas |-> Flat(rows, 4), us |-> Flat(uvs, 2), camera |-> c] :
            rows \in [1..n -> AlphaRows], uvs \in [1..n -> UVs], c \in Intrinsics } :
          n \in 0..MaxFill }

\* What the actions of the assembly leave alone.
FillFrame == UNCHANGED << solveVars, firstVars, basisVars, jacVars, signVars,
                           seedVars, estVars,
                           trackerVars, kernelVars >>

\* var M = new Float64Array(2 * numberOfCorrespondences * 12)
newM(n) == [c \in 0..(2 * n * 12 - 1) |-> 0]

\* computePose reaches line 742 with the instance as a describes it.
ComputePoseFill(a) ==
  /\ fillPc = "idle"
  /\ fillArgs' = a
  /\ fillI' = 0
  /\ Mdata' = newM(Len(a.us) \div 2)
  /\ Mwrites' = << >>
  /\ fillPc' = "fill"
  /\ FillFrame

\* The stores of one fillM(M, row, as, offset, u, v) call, in the order of
\* the code, each as << index into M, value >>.
fillM(row, as, offset, u, v, camera) ==
  LET fu == camera[1]
      fv == camera[2]
      uc == camera[3]
      vc == camera[4]
      m1 == row * 12
      m2 == m1 + 12
      stores(i) ==
        << << m1 + 3 * i,     as[offset + i + 1] * fu >>,
           << m1 + 3 * i + 1, 0 >>,
           << m1 + 3 * i + 2, as[offset + i + 1] * (uc - u) >>,
           << m2 + 3 * i,     0 >>,
           << m2 + 3 * i + 1, as[offset + i + 1] * fv >>,
           << m2 + 3 * i + 2, as[offset + i + 1] * (vc - v) >> >>
  IN  stores(0) \o stores(1) \o stores(2) \o stores(3)

RECURSIVE storeAll(_, _)
\* The typed array after the stores of ws, first to last; a store at an
\* index outside the array is dropped, as a Float64Array drops it.
storeAll(array, ws) ==
  IF ws = << >> THEN array
  ELSE LET w == Head(ws)
       IN  storeAll(IF w[1] \in DOMAIN array THEN [array EXCEPT ![w[1]] = w[2]] ELSE array,
                    Tail(ws))

\* A row argument that advances by one row for each correspondence.
fillRow_single(i) == i

\* The row argument of the fillM call for correspondence i: 2 * i.
fillRow(i) == 2 * i

\* One round of for (i = 0; i < numberOfCorrespondences; i++):
\* instance.fillM(M, 2 * i, alphas, 4 * i, us[2 * i], us[2 * i + 1]).
FillM ==
  /\ fillPc = "fill"
  /\ fillI < Len(fillArgs.us) \div 2
  /\ LET ws == fillM(fillRow(fillI), fillArgs.alphas, 4 * fillI,
                     fillArgs.us[2 * fillI + 1], fillArgs.us[2 * fillI + 2],
                     fillArgs.camera)
     IN  /\ Mdata' = storeAll(Mdata, ws)
         /\ Mwrites' = Mwrites \o [j \in 1..Len(ws) |-> ws[j][1]]
  /\ fillI' = fillI + 1
  /\ UNCHANGED << fillPc, fillArgs >>
  /\ FillFrame

\* The loop ends: M is handed to mulTransposed.
FillEnd ==
  /\ fillPc = "fill"
  /\ fillI = Len(fillArgs.us) \div 2
  /\ fillPc' = "done"
  /\ UNCHANGED << fillArgs, fillI, Mdata, Mwrites >>
  /\ FillFrame

NextFill ==
  \/ \E a \in FillArguments : ComputePoseFill(a)
  \/ FillM
  \/ FillEnd

SpecFill == Init /\ [][NextFill]_vars

\* C21: when the assembly is done, M has 2n rows of 12 cells, every cell
\* has been stored into exactly once and no store fell outside M, the
\* stores of the call for correspondence i all went to rows 2i and 2i+1,
\* and for each control point k = 0..3 row 2i holds a_k*fu, 0, a_k*(uc-u)
\* and row 2i+1 holds 0, a_k*fv, a_k*(vc-v) in columns 3k, 3k+1, 3k+2.
C21_SystemRowsFilledOnce ==
  fillPc = "done" =>
    LET n  == Len(fillArgs.us) \div 2
        fu == fillArgs.camera[1]
        fv == fillArgs.camera[2]
        uc == fillArgs.camera[3]
        vc == fillArgs.camera[4]
    IN  /\ DOMAIN Mdata = 0..(2 * n * 12 - 1)
        /\ \A c \in DOMAIN Mdata :
             Cardinality({ j \in 1..Len(Mwrites) : Mwrites[j] = c }) = 1
        /\ \A j \in 1..Len(Mwrites) :
             /\ Mwrites[j] \in DOMAIN Mdata
             /\ LET i == (j - 1) \div 24
                IN  Mwrites[j] \div 12 \in { 2 * i, 2 * i + 1 }
        /\ \A i \in 0..(n - 1) : \A k \in 0..3 :
             LET a == fillArgs.alphas[4 * i + k + 1]
                 u == fillArgs.us[2 * i + 1]
                 v == fillArgs.us[2 * i + 2]
             IN  /\ Mdata[(2 * i) * 12 + 3 * k]         = a * fu
                 /\ Mdata[(2 * i) * 12 + 3 * k + 1]     = 0
                 /\ Mdata[(2 * i) * 12 + 3 * k + 2]     = a * (uc - u)
                 /\ Mdata[(2 * i + 1) * 12 + 3 * k]     = 0
                 /\ Mdata[(2 * i + 1) * 12 + 3 * k + 1] = a * fv
                 /\ Mdata[(2 * i + 1) * 12 + 3 * k + 2] = a * (vc - v)

\* C21 witness: an assembly of two correspondences is done, and the second
\* one left non-zero entries in the rows 2 and 3.
C21_TwoCorrespondencesAssembled ==
  /\ fillPc = "done"
  /\ Len(fillArgs.us) = 4
  /\ Mdata[2 * 12 + 3 * 3 + 2] # 0
  /\ Mdata[3 * 12 + 3 * 1 + 1] # 0

-----------------------------------------------------------------------------
(* The null-space basis.  computePose, lines 748-761: svd(MtM, 12, 12, D,  *)
(* Ut, 0) copies the U of numeric.svd into Ut, transposeSquare(Ut, 12)     *)
(* transposes it in place, computeL6x10 and computeRho build the distance  *)
(* constraints, and computeRAndT starts with computeCCS(betas, ut).  All   *)
(* arrays are flat and indexed from 0, as in the code.                     *)

\* The columns that numeric.svd can return as singular vectors 8..11 (the
\* entries of a column by row), and the columns 0..7.
ColumnPatterns ==
  { [r \in 0..11 |-> r + 1],
    [r \in 0..11 |-> ((r * r) % 5) - 2],
    [r \in 0..11 |-> IF r % 3 = 0 THEN 2 ELSE -1] }

\* output.U of numeric.svd, u[i][j], whose columns 8..11 are last.
SvdOutput(last) ==
  [i \in 0..11 |-> [j \in 0..11 |-> IF j >= 8 THEN last[j][i] ELSE 10 + j]]

\* instance.cws as chooseControlPoints can leave it (4 x 3, flat).
ControlPointSets ==
  { [idx \in 0..11 |-> << 0, 0, 0,  1, 0, 0,  0, 2, 0,  0, 0, 3 >>[idx + 1]],
    [idx \in 0..11 |-> << 1, 1, 1,  2, 0, 0,  0, 3, 1,  1, 0, 4 >>[idx + 1]] }

\* The betas handed to computeCCS.
BetaVectors ==
  { [i \in 0..3 |-> << 1, 0, 0, 0 >>[i + 1]],
    [i \in 0..3 |-> << 1, 2, -1, 3 >>[i + 1]] }

BasisArguments ==
  { [u |-> SvdOutput(last), cws |-> c, betas |-> b] :
      last \in [8..11 -> ColumnPatterns], c \in ControlPointSets, b \in BetaVectors }

\* What the actions on the basis leave alone.
BasisFrame == UNCHANGED << solveVars, firstVars, fillVars, jacVars, signVars,
                            seedVars, estVars,
                            trackerVars, kernelVars >>

\* numeric.svd(matrix) has returned a.u for MtM.
NumericSvd(a) ==
  /\ basisPc = "idle"
  /\ basisArgs' = a
  /\ basisPc' = "svd"
  /\ UNCHANGED << UtData, l6x10Locals, L_6x10, Rho, ccsData >>
  /\ BasisFrame

\* svd, lines 415-421: U[i*m + j] = u[i][j].
svdCopyU(u, m) == [idx \in 0..(m * m - 1) |-> u[idx \div m][idx % m]]

SvdCopy ==
  /\ basisPc = "svd"
  /\ UtData' = svdCopyU(basisArgs.u, 12)
  /\ basisPc' = "transposeSquare"
  /\ UNCHANGED << basisArgs, l6x10Locals, L_6x10, Rho, ccsData >>
  /\ BasisFrame

\* Round i of the outer loop of transposeSquare, its inner loop
\* for (j = 0; j < i; j++) done: A[i*n+j] and A[j*n+i] have changed places
\* for every j < i (no cell is touched twice within the round).
transposeSquareRound(A, n, i) ==
  [idx \in DOMAIN A |->
    LET r == idx \div n
        c == idx % n
    IN  IF (r = i /\ c < i) \/ (c = i /\ r < i) THEN A[c * n + r] ELSE A[idx]]

RECURSIVE transposeSquareRounds(_, _, _)
\* A after the rounds 1 .. i of the outer loop.
transposeSquareRounds(A, n, i) ==
  IF i = 0 THEN A
  ELSE transposeSquareRound(transposeSquareRounds(A, n, i - 1), n, i)

\* transposeSquare(A, n): for (i = 1; i < n; i++) for (j = 0; j < i; j++).
transposeSquare(A, n) == transposeSquareRounds(A, n, n - 1)

TransposeSquare ==
  /\ basisPc = "transposeSquare"
  /\ UtData' = transposeSquare(UtData, 12)
  /\ basisPc' = "computeL6x10"
  /\ UNCHANGED << basisArgs, l6x10Locals, L_6x10, Rho, ccsData >>
  /\ BasisFrame

\* A store of an integer into a Uint8ClampedArray: clamped to 0..255.
Uint8ClampedStore(x) == IF x < 0 THEN 0 ELSE IF x > 255 THEN 255 ELSE x

\* v[0] = 12 * 11; v[1] = 12 * 10; v[2] = 12 * 9; v[3] = 12 * 8.
rowOffsets ==
  [i \in 0..3 |-> Uint8ClampedStore(<< 12 * 11, 12 * 10, 12 * 9, 12 * 8 >>[i + 1])]

\* The step of (a, b) that restarts b at a: b++; if (b > 3) { a++; b = a; }.
nextPair_fromA(ab) ==
  IF ab[2] + 1 > 3 THEN << ab[1] + 1, ab[1] + 1 >> ELSE << ab[1], ab[2] + 1 >>

\* The step of (a, b) at the end of a round: b++; if (b > 3) { a++; b = a + 1; }.
nextPair(ab) ==
  IF ab[2] + 1 > 3 THEN << ab[1] + 1, ab[1] + 2 >> ELSE << ab[1], ab[2] + 1 >>

RECURSIVE pairOfRound(_)
\* (a, b) in round j of for (j = 0; j < 6; j++), from var a = 0, b = 1.
pairOfRound(j) == IF j = 0 THEN << 0, 1 >> ELSE nextPair(pairOfRound(j - 1))

\* dv[i][j*3 + c] = ut[v[i] + 3 * a + c] - ut[v[i] + 3 * b + c]
differences(ut, v) ==
  [i \in 0..3 |->
    [idx \in 0..17 |->
      LET ab == pairOfRound(idx \div 3)
          c  == idx % 3
      IN  ut[v[i] + 3 * ab[1] + c] - ut[v[i] + 3 * ab[2] + c]]]

\* instance.dot(v1, v1offset, v2, v2offset)
dot3(v1, v1offset, v2, v2offset) ==
    v1[v1offset] * v2[v2offset] + v1[v1offset + 1] * v2[v2offset + 1]
  + v1[v1offset + 2] * v2[v2offset + 2]

\* Lines 1066-1077: column c of l_6x10 is factor * dot(dv[p], dv[q]), given
\* here as << factor, p, q >> for c = 0..9.
l6x10Columns ==
  << << 1, 0, 0 >>, << 2, 0, 1 >>, << 1, 1, 1 >>, << 2, 0, 2 >>, << 2, 1, 2 >>,
     << 1, 2, 2 >>, << 2, 0, 3 >>, << 2, 1, 3 >>, << 2, 2, 3 >>, << 1, 3, 3 >> >>

\* l_6x10[10*i + c], for i = 0..5
l6x10Of(dvs) ==
  [idx \in 0..59 |->
    LET i   == idx \div 10
        col == l6x10Columns[(idx % 10) + 1]
    IN  col[1] * dot3(dvs[col[2]], i * 3, dvs[col[3]], i * 3)]

\* computeL6x10(Ut, L_6x10)
ComputeL6x10 ==
  /\ basisPc = "computeL6x10"
  /\ LET v   == rowOffsets
         dvs == differences(UtData, v)
     IN  /\ l6x10Locals' = [v |-> v, dv |-> dvs,
                            pairs |-> [j \in 1..6 |-> pairOfRound(j - 1)]]
         /\ L_6x10' = l6x10Of(dvs)
  /\ basisPc' = "computeRho"
  /\ UNCHANGED << basisArgs, UtData, Rho, ccsData >>
  /\ BasisFrame

\* instance.dist2(p1, p1offset, p2, p2offset)
dist2(p1, p1offset, p2, p2offset) ==
    (p1[p1offset] - p2[p2offset]) * (p1[p1offset] - p2[p2offset])
  + (p1[p1offset + 1] - p2[p2offset + 1]) * (p1[p1offset + 1] - p2[p2offset + 1])
  + (p1[p1offset + 2] - p2[p2offset + 2]) * (p1[p1offset + 2] - p2[p2offset + 2])

\* The six assignments of computeRho, rho[0] .. rho[5].
computeRho(c) ==
  [j \in 0..5 |->
    << dist2(c, 0 * 3, c, 1 * 3), dist2(c, 0 * 3, c, 2 * 3), dist2(c, 0 * 3, c, 3 * 3),
       dist2(c, 1 * 3, c, 2 * 3), dist2(c, 1 * 3, c, 3 * 3), dist2(c, 2 * 3, c, 3 * 3) >>[j + 1]]

ComputeRho ==
  /\ basisPc = "computeRho"
  /\ Rho' = computeRho(basisArgs.cws)
  /\ basisPc' = "computeCCS"
  /\ UNCHANGED << basisArgs, UtData, l6x10Locals, L_6x10, ccsData >>
  /\ BasisFrame

\* An offset that takes the rows in ascending order: 12 * (8 + i).
ccsOffset_ascending(i) == 12 * (8 + i)

\* var v = 12 * (11 - i)
ccsOffset(i) == 12 * (11 - i)

RECURSIVE ccsSum(_, _, _, _)
\* ccs[j*3 + k] after the rounds i = 0 .. m-1 of the outer loop of
\* computeCCS, from 0.0: ccs[j*3 + k] += betas[i] * ut[v + 3 * j + k].
ccsSum(betas, ut, idx, m) ==
  IF m = 0 THEN 0
  ELSE ccsSum(betas, ut, idx, m - 1) + betas[m - 1] * ut[ccsOffset(m - 1) + idx]

computeCCS(betas, ut) == [idx \in 0..11 |-> ccsSum(betas, ut, idx, 4)]

ComputeCCS ==
  /\ basisPc = "computeCCS"
  /\ ccsData' = computeCCS(basisArgs.betas, UtData)
  /\ basisPc' = "done"
  /\ UNCHANGED << basisArgs, UtData, l6x10Locals, L_6x10, Rho >>
  /\ BasisFrame

NextBasis ==
  \/ \E a \in BasisArguments : NumericSvd(a)
  \/ SvdCopy
  \/ TransposeSquare
  \/ ComputeL6x10
  \/ ComputeRho
  \/ ComputeCCS

SpecBasis == Init /\ [][NextBasis]_vars

\* The six unordered pairs of control points, in lexicographic order.
SixPairs == << << 0, 1 >>, << 0, 2 >>, << 0, 3 >>, << 1, 2 >>, << 1, 3 >>, << 2, 3 >> >>

\* Coordinate c of control point a in singular vector number s (column s of
\* the U that numeric.svd returned).
BasisCoordinate(s, a, c) == basisArgs.u[3 * a + c][s]

\* C22: basis vector i (i = 0..3) is row 11 - i of the transposed Ut, that
\* is singular vector 11 - i; the offsets kept in the clamped array v are
\* 132, 120, 108, 96; difference set i of computeL6x10 is built from basis
\* vector i, and computeCCS multiplies beta i with the same basis vector i.
C22_SameBasisVectorForBetaAndDifferences ==
  basisPc = "done" =>
    /\ \A i \in 0..3 :
         /\ l6x10Locals.v[i] = 12 * (11 - i)
         /\ \A idx \in 0..11 : UtData[12 * (11 - i) + idx] = basisArgs.u[idx][11 - i]
         /\ \A j \in 0..5 : \A c \in 0..2 :
              l6x10Locals.dv[i][j * 3 + c] =
                BasisCoordinate(11 - i, SixPairs[j + 1][1], c)
                  - BasisCoordinate(11 - i, SixPairs[j + 1][2], c)
    /\ \A a \in 0..3 : \A c \in 0..2 :
         ccsData[3 * a + c] =
             basisArgs.betas[0] * BasisCoordinate(11, a, c)
           + basisArgs.betas[1] * BasisCoordinate(10, a, c)
           + basisArgs.betas[2] * BasisCoordinate(9, a, c)
           + basisArgs.betas[3] * BasisCoordinate(8, a, c)

\* C22 witness: computeCCS has run with four non-zero betas on a basis whose
\* singular vectors 11 and 8 differ, as do 10 and 9.
C22_DistinctBasisVectorsCombined ==
  /\ basisPc = "done"
  /\ \A i \in 0..3 : basisArgs.betas[i] # 0
  /\ \E r \in 0..11 : basisArgs.u[r][11] # basisArgs.u[r][8]
  /\ \E r \in 0..11 : basisArgs.u[r][10] # basisArgs.u[r][9]

\* The difference between control points a and b in singular vector s.
BasisDifference(s, a, b) ==
  [c \in 0..2 |-> BasisCoordinate(s, a, c) - BasisCoordinate(s, b, c)]

\* The scalar product of two vectors of three coordinates.
Scalar3(x, y) == x[0] * y[0] + x[1] * y[1] + x[2] * y[2]

\* C23: the rounds j = 0..5 of computeL6x10 visit the control-point pairs
\* (0,1), (0,2), (0,3), (1,2), (1,3), (2,3) in that order, each unordered
\* pair once, and for every j row j of L is built from the differences of
\* that pair and rho[j] is the squared distance of the same pair.
C23_RowsOfLAndRhoSharePairs ==
  basisPc \in {"computeCCS", "done"} =>
    /\ l6x10Locals.pairs = SixPairs
    /\ \A a \in 0..3 : \A b \in (a + 1)..3 :
         Cardinality({ j \in 1..6 : l6x10Locals.pairs[j] = << a, b >> }) = 1
    /\ \A j \in 0..5 :
         LET a == SixPairs[j + 1][1]
             b == SixPairs[j + 1][2]
         IN  /\ Rho[j] = Scalar3([c \in 0..2 |-> basisArgs.cws[3 * a + c] - basisArgs.cws[3 * b + c]],
                                 [c \in 0..2 |-> basisArgs.cws[3 * a + c] - basisArgs.cws[3 * b + c]])
             /\ \A col \in 0..9 :
                  LET term == l6x10Columns[col + 1]
                  IN  L_6x10[10 * j + col] =
                        term[1] * Scalar3(BasisDifference(11 - term[2], a, b),
                                          BasisDifference(11 - term[3], a, b))

\* C23 witness: L and rho have been computed for control points whose six
\* squared distances all differ, and the rows 2 and 3 of L (the pairs (0,3)
\* and (1,2), where a restarts) differ.
C23_DistinctPairsComputed ==
  /\ basisPc = "computeCCS"
  /\ \A i \in 0..5 : \A j \in 0..5 : i # j => Rho[i] # Rho[j]
  /\ \E col \in 0..9 : L_6x10[10 * 2 + col] # L_6x10[10 * 3 + col]

-----------------------------------------------------------------------------
(* computeAAndBGaussNewton(l_6x10, Rho, betas, A, b): the Jacobian A and   *)
(* the residual b of the six distance constraints at the current betas.    *)
(* rowL = l_6x10.subarray(i * 10) and rowA = A.subarray(i * 4) are views:  *)
(* rowL[c] is l_6x10[i*10 + c], a store to rowA[k] is a store to A[i*4+k]. *)

\* Rows of coefficients from which the matrices L of the calls are built.
RowPatterns ==
  { << 1, 2, 3, 4, 5, 6, 7, 8, 9, 10 >>, << 2, -1, 0, 3, 1, -2, 0, 1, 4, -3 >> }

\* l_6x10 (row i is a pattern times i + s), Rho and betas of a call.
JacobianArguments ==
  { [l_6x10 |-> [idx \in 0..59 |-> pat[(idx % 10) + 1] * ((idx \div 10) + sc)],
     Rho    |-> [i \in 0..5 |-> r * (i + 1)],
     betas  |-> b] :
      pat \in RowPatterns, sc \in {0, 1}, r \in {0, 3}, b \in [0..3 -> {-1, 0, 2}] }

\* What the actions of the call leave alone.
JacFrame == UNCHANGED << solveVars, firstVars, fillVars, basisVars, signVars,
                          seedVars, estVars,
                          trackerVars, kernelVars >>

\* gaussNewton calls computeAAndBGaussNewton(L_6x10, Rho, betas, A, B);
\* A and B are new Float64Arrays.
CallComputeAAndB(a) ==
  /\ jacPc = "idle"
  /\ jacArgs' = a
  /\ gnA' = [idx \in 0..23 |-> 0]
  /\ gnB' = [i \in 0..5 |-> 0]
  /\ jacPc' = "called"
  /\ JacFrame

\* A row of A in which no term is doubled.
jacobianRow_noDouble(l, i, betas) ==
  << l[i * 10 + 0] * betas[0] + l[i * 10 + 1] * betas[1] + l[i * 10 + 3] * betas[2] + l[i * 10 + 6] * betas[3],
     l[i * 10 + 1] * betas[0] + l[i * 10 + 2] * betas[1] + l[i * 10 + 4] * betas[2] + l[i * 10 + 7] * betas[3],
     l[i * 10 + 3] * betas[0] + l[i * 10 + 4] * betas[1] + l[i * 10 + 5] * betas[2] + l[i * 10 + 8] * betas[3],
     l[i * 10 + 6] * betas[0] + l[i * 10 + 7] * betas[1] + l[i * 10 + 8] * betas[2] + l[i * 10 + 9] * betas[3] >>

\* rowA[0] .. rowA[3] of round i, lines 1099-1102.
jacobianRow(l, i, betas) ==
  << 2 * l[i * 10 + 0] * betas[0] + l[i * 10 + 1] * betas[1] + l[i * 10 + 3] * betas[2] + l[i * 10 + 6] * betas[3],
     l[i * 10 + 1] * betas[0] + 2 * l[i * 10 + 2] * betas[1] + l[i * 10 + 4] * betas[2] + l[i * 10 + 7] * betas[3],
     l[i * 10 + 3] * betas[0] + l[i * 10 + 4] * betas[1] + 2 * l[i * 10 + 5] * betas[2] + l[i * 10 + 8] * betas[3],
     l[i * 10 + 6] * betas[0] + l[i * 10 + 7] * betas[1] + l[i * 10 + 8] * betas[2] + 2 * l[i * 10 + 9] * betas[3] >>

\* b[i*1 + 0] of round i, lines 1104-1116.
residual(l, rho, i, betas) ==
  rho[i] -
    ( l[i * 10 + 0] * betas[0] * betas[0] +
      l[i * 10 + 1] * betas[0] * betas[1] +
      l[i * 10 + 2] * betas[1] * betas[1] +
      l[i * 10 + 3] * betas[0] * betas[2] +
      l[i * 10 + 4] * betas[1] * betas[2] +
      l[i * 10 + 5] * betas[2] * betas[2] +
      l[i * 10 + 6] * betas[0] * betas[3] +
      l[i * 10 + 7] * betas[1] * betas[3] +
      l[i * 10 + 8] * betas[2] * betas[3] +
      l[i * 10 + 9] * betas[3] * betas[3] )

\* The six rounds of for (i = 0; i < 6; i++).
ComputeAAndBGaussNewton ==
  /\ jacPc = "called"
  /\ gnA' = [idx \in 0..23 |->
              jacobianRow(jacArgs.l_6x10, idx \div 4, jacArgs.betas)[(idx % 4) + 1]]
  /\ gnB' = [i \in 0..5 |-> residual(jacArgs.l_6x10, jacArgs.Rho, i, jacArgs.betas)]
  /\ jacPc' = "done"
  /\ UNCHANGED jacArgs
  /\ JacFrame

NextJac ==
  \/ \E a \in JacobianArguments : CallComputeAAndB(a)
  \/ ComputeAAndBGaussNewton

SpecJac == Init /\ [][NextJac]_vars

\* The ten products of two betas, as pairs of indices, in the order
\* b1b1, b1b2, b2b2, b1b3, b2b3, b3b3, b1b4, b2b4, b3b4, b4b4.
BetaProducts ==
  << << 0, 0 >>, << 0, 1 >>, << 1, 1 >>, << 0, 2 >>, << 1, 2 >>,
     << 2, 2 >>, << 0, 3 >>, << 1, 3 >>, << 2, 3 >>, << 3, 3 >> >>

RECURSIVE QuadraticForm(_, _, _, _)
\* The first m terms of q_i at x: the sum of L[i][c] * x_p * x_q over the
\* products c = 0 .. m-1.
QuadraticForm(l, i, x, m) ==
  IF m = 0 THEN 0
  ELSE QuadraticForm(l, i, x, m - 1)
         + l[i * 10 + m - 1] * x[BetaProducts[m][1]] * x[BetaProducts[m][2]]

\* x moved by d along coordinate k.
Shifted(x, k, d) == [x EXCEPT ![k] = x[k] + d]

\* C24: after computeAAndBGaussNewton, for every row i, b[i] is rho[i]
\* minus the quadratic form q_i at the betas, and A[i][k] is the partial
\* derivative of q_i with respect to beta k at the betas.  For a quadratic
\* form the central difference q(x + e_k) - q(x - e_k) is exactly twice
\* that derivative.
C24_JacobianAndResidual ==
  jacPc = "done" =>
    \A i \in 0..5 :
      /\ gnB[i] = jacArgs.Rho[i] - QuadraticForm(jacArgs.l_6x10, i, jacArgs.betas, 10)
      /\ \A k \in 0..3 :
           2 * gnA[i * 4 + k] =
               QuadraticForm(jacArgs.l_6x10, i, Shifted(jacArgs.betas, k, 1), 10)
             - QuadraticForm(jacArgs.l_6x10, i, Shifted(jacArgs.betas, k, -1), 10)

\* C24 witness: the call is done for four non-zero betas and an L whose
\* rows are non-zero, and it left a non-zero Jacobian row and residual.
C24_NonZeroJacobianComputed ==
  /\ jacPc = "done"
  /\ \A k \in 0..3 : jacArgs.betas[k] # 0
  /\ jacArgs.l_6x10[0] # 0
  /\ \A k \in 0..3 : gnA[5 * 4 + k] # 0
  /\ gnB[5] # 0

-----------------------------------------------------------------------------
(* computeRAndT, lines 911-914: computePCS and solveForSign.  The numbers  *)
(* are doubles, [nan, v]: instance.alphas is not finite when               *)
(* computeBarycentricCoordinates worked with the inverse of a singular cc, *)
(* and instance.ccs is not finite when the betas or Ut are not.            *)

\* The largest number of correspondences of a computeRAndT call followed.
MaxSign == 2

\* a * b, a + b and -a on doubles: NaN as soon as one operand is NaN.
Times(a, b) == IF a.nan \/ b.nan THEN NaN ELSE Num(a.v * b.v)
Plus(a, b) == IF a.nan \/ b.nan THEN NaN ELSE Num(a.v + b.v)
Minus(a) == IF a.nan THEN NaN ELSE Num(-a.v)

\* A list of integers as a flat array of doubles, indexed from 0.
Doubles(xs) == [idx \in 0..(Len(xs) - 1) |-> Num(xs[idx + 1])]

\* The weights alphas[4*i .. 4*i+3] of a correspondence for control points
\* that span space.
FiniteAlphaRows == { Doubles(r) : r \in { << 1, 0, 0, 0 >>, << -1, 1, 1, 0 >>, << 0, 0, 2, -1 >> } }

\* The weights of every correspondence when cc was singular and its inverse
\* came back without finite entries.
NonFiniteAlphaRow == [k \in 0..3 |-> NaN]

\* instance.ccs (4 x 3, flat) as computeCCS can leave it.
CcsValues ==
  { Doubles(<< 0, 0, 1,  1, 0, 2,  0, 1, 3,  1, 1, 1 >>),
    Doubles(<< 0, 0, -1,  1, 0, -2,  0, 1, -3,  1, 1, -1 >>),
    Doubles(<< 1, 2, 0,  0, 1, 0,  2, 0, 0,  0, 0, 0 >>),
    [idx \in 0..11 |-> NaN] }

SignArguments ==
  UNION { { [alphas |-> rows, ccs |-> c] :
            rows \in [0..(n - 1) -> FiniteAlphaRows] \cup { [i \in 0..(n - 1) |-> NonFiniteAlphaRow] },
            c \in CcsValues } :
          n \in 1..MaxSign }

\* What the actions of the call leave alone.
SignFrame == UNCHANGED << solveVars, firstVars, fillVars, basisVars, jacVars,
                           seedVars, estVars,
                           trackerVars, kernelVars >>

\* computeRAndT has called computeCCS; the instance is as a describes it.
CallComputePCS(a) ==
  /\ signPc = "idle"
  /\ signArgs' = a
  /\ signPc' = "computePCS"
  /\ UNCHANGED << beforeSign, afterSign >>
  /\ SignFrame

\* pcs[pc + j] = alphas[a + 0] * ccs[0 * 3 + j] + alphas[a + 1] * ccs[1 * 3 + j]
\*             + alphas[a + 2] * ccs[2 * 3 + j] + alphas[a + 3] * ccs[3 * 3 + j]
computePCS(rows, c) ==
  [idx \in 0..(3 * Cardinality(DOMAIN rows) - 1) |->
    LET i == idx \div 3
        j == idx % 3
    IN  Plus(Plus(Plus(Times(rows[i][0], c[0 * 3 + j]), Times(rows[i][1], c[1 * 3 + j])),
                  Times(rows[i][2], c[2 * 3 + j])),
             Times(rows[i][3], c[3 * 3 + j]))]

ComputePCS ==
  /\ signPc = "computePCS"
  /\ LET p == computePCS(signArgs.alphas, signArgs.ccs)
     IN  /\ beforeSign' = [pcs |-> p, ccs |-> signArgs.ccs]
         /\ afterSign' = [pcs |-> p, ccs |-> signArgs.ccs]
  /\ signPc' = "solveForSign"
  /\ UNCHANGED signArgs
  /\ SignFrame

\* solveForSign: if (pcs[2] < 0.0), every ccs[i*3 + j] and every pcs entry
\* of the numberOfCorrespondences points is negated; otherwise nothing is
\* written.
solveForSign(pcs, c) ==
  IF Lt(pcs[2], Num(0))
  THEN [pcs |-> [idx \in DOMAIN pcs |-> Minus(pcs[idx])],
        ccs |-> [idx \in DOMAIN c |-> Minus(c[idx])]]
  ELSE [pcs |-> pcs, ccs |-> c]

SolveForSign ==
  /\ signPc = "solveForSign"
  /\ afterSign' = solveForSign(afterSign.pcs, afterSign.ccs)
  /\ signPc' = "done"
  /\ UNCHANGED << signArgs, beforeSign >>
  /\ SignFrame

NextSign ==
  \/ \E a \in SignArguments : CallComputePCS(a)
  \/ ComputePCS
  \/ SolveForSign

SpecSign == Init /\ [][NextSign]_vars

\* C25: after solveForSign the depth pcs[2] of the first reconstructed
\* point is non-negative, and either the depth was >= 0 and every pcs and
\* ccs entry is as before, or it was < 0 and every entry is negated.
C25_FirstDepthNonNegative ==
  signPc = "done" =>
    /\ Le(Num(0), afterSign.pcs[2])
    /\ \/ /\ Le(Num(0), beforeSign.pcs[2])
          /\ afterSign = beforeSign
       \/ /\ Lt(beforeSign.pcs[2], Num(0))
          /\ \A idx \in DOMAIN beforeSign.pcs : afterSign.pcs[idx] = Minus(beforeSign.pcs[idx])
          /\ \A idx \in DOMAIN beforeSign.ccs : afterSign.ccs[idx] = Minus(beforeSign.ccs[idx])

-----------------------------------------------------------------------------
(* findBetasApprox1 / 2 / 3 from the solution B of solveLinearSystem on.   *)
(* A double is kept as sign and magnitude: finite (s, m), infinite (s) or  *)
(* NaN, so that -0, the division by a zero and the square root behave as   *)
(* IEEE-754 has them.  The finite values are chosen so that every square   *)
(* root and every quotient the code takes of them is an integer.           *)

Dbl(sgn, mag) == [cls |-> "finite", s |-> sgn, m |-> mag]
Infinite(sgn) == [cls |-> "infinite", s |-> sgn, m |-> 0]
NotANumber == [cls |-> "nan", s |-> 1, m |-> 0]

\* The double of an integer.
FromInt(x) == Dbl(IF x < 0 THEN -1 ELSE 1, Abs(x))

\* a < 0 and a > 0 on doubles (false for NaN, for 0 and for -0).
IsNegative(a) == a.cls # "nan" /\ a.s = -1 /\ (a.cls = "infinite" \/ a.m > 0)
IsPositive(a) == a.cls # "nan" /\ a.s = 1 /\ (a.cls = "infinite" \/ a.m > 0)

\* -a
Negate(a) == IF a.cls = "nan" THEN a ELSE [a EXCEPT !.s = -a.s]

\* Math.sqrt(a)
Sqrt(a) ==
  IF a.cls = "nan" \/ IsNegative(a) THEN NotANumber
  ELSE IF a.cls = "infinite" THEN a
  ELSE Dbl(a.s, CHOOSE r \in 0..a.m : r * r = a.m)

\* a / b
Divide(a, b) ==
  IF a.cls = "nan" \/ b.cls = "nan" THEN NotANumber
  ELSE IF a.cls = "infinite"
       THEN IF b.cls = "infinite" THEN NotANumber ELSE Infinite(a.s * b.s)
  ELSE IF b.cls = "infinite" THEN Dbl(a.s * b.s, 0)
  ELSE IF b.m = 0
       THEN IF a.m = 0 THEN NotANumber ELSE Infinite(a.s * b.s)
  ELSE Dbl(a.s * b.s, a.m \div b.m)

\* The finite values an entry of B takes.
FiniteEntries == { FromInt(-4), FromInt(0), FromInt(4) }

\* The length of B for the variant: B4, B3, B5.
lengthOfB(variant) == << 4, 3, 5 >>[variant]

\* What solveLinearSystem can leave in B: a finite solution, or, for
\* normal equations that are singular or not finite, NaN throughout.
Solutions(variant) ==
  [0..(lengthOfB(variant) - 1) -> FiniteEntries]
    \cup { [i \in 0..(lengthOfB(variant) - 1) |-> NotANumber] }

\* What the actions of the call leave alone.
SeedFrame == UNCHANGED << solveVars, firstVars, fillVars, basisVars, jacVars,
                          signVars, estVars,
                           trackerVars, kernelVars >>

\* findBetasApproxN (variant N) has called solveLinearSystem, which left B;
\* betas is Betas[N], a new Float64Array(4).
SolveLinearSystem(variant, B) ==
  /\ seedPc = "idle"
  /\ seedArgs' = [variant |-> variant, B |-> B]
  /\ seedBetas' = [i \in 0..3 |-> FromInt(0)]
  /\ seedPc' = "solved"
  /\ SeedFrame

\* findBetasApprox1, lines 964-974
findBetasApprox1(B4) ==
  IF IsNegative(B4[0])
  THEN LET b0 == Sqrt(Negate(B4[0]))
       IN  [i \in 0..3 |-> IF i = 0 THEN b0 ELSE Divide(Negate(B4[i]), b0)]
  ELSE LET b0 == Sqrt(B4[0])
       IN  [i \in 0..3 |-> IF i = 0 THEN b0 ELSE Divide(B4[i], b0)]

\* betas[0] and betas[1] of findBetasApprox2 and findBetasApprox3 (lines
\* 993-1003 and 1026-1035) for B[0], B[1], B[2].
signedPair(B) ==
  LET b0 == IF IsNegative(B[0]) THEN Sqrt(Negate(B[0])) ELSE Sqrt(B[0])
      b1 == IF IsNegative(B[0])
            THEN (IF IsNegative(B[2]) THEN Sqrt(Negate(B[2])) ELSE FromInt(0))
            ELSE (IF IsPositive(B[2]) THEN Sqrt(B[2]) ELSE FromInt(0))
  IN  << IF IsNegative(B[1]) THEN Negate(b0) ELSE b0, b1 >>

\* findBetasApprox2: betas[2] = 0.0; betas[3] = 0.0.
findBetasApprox2(B3) ==
  LET pr == signedPair(B3)
  IN  [i \in 0..3 |-> IF i = 0 THEN pr[1] ELSE IF i = 1 THEN pr[2] ELSE FromInt(0)]

\* findBetasApprox3: betas[2] = B5[3] / betas[0]; betas[3] = 0.0.
findBetasApprox3(B5) ==
  LET pr == signedPair(B5)
  IN  [i \in 0..3 |-> IF i = 0 THEN pr[1] ELSE IF i = 1 THEN pr[2]
                       ELSE IF i = 2 THEN Divide(B5[3], pr[1]) ELSE FromInt(0)]

\* The rest of findBetasApproxN after solveLinearSystem.
FindBetasApprox ==
  /\ seedPc = "solved"
  /\ seedBetas' = IF seedArgs.variant = 1 THEN findBetasApprox1(seedArgs.B)
                  ELSE IF seedArgs.variant = 2 THEN findBetasApprox2(seedArgs.B)
                  ELSE findBetasApprox3(seedArgs.B)
  /\ seedPc' = "done"
  /\ UNCHANGED seedArgs
  /\ SeedFrame

NextSeed ==
  \/ \E variant \in 1..3 : \E B \in Solutions(variant) : SolveLinearSystem(variant, B)
  \/ FindBetasApprox

SpecSeed == Init /\ [][NextSeed]_vars

\* a * b on doubles.
Product(a, b) ==
  IF a.cls = "nan" \/ b.cls = "nan" THEN NotANumber
  ELSE IF a.cls = "infinite" \/ b.cls = "infinite"
       THEN IF (a.cls = "finite" /\ a.m = 0) \/ (b.cls = "finite" /\ b.m = 0)
            THEN NotANumber ELSE Infinite(a.s * b.s)
  ELSE Dbl(a.s * b.s, a.m * b.m)

\* a = 0 on doubles (true of 0 and of -0).
IsZero(a) == a.cls = "finite" /\ a.m = 0

\* C26: in the seeds of findBetasApprox2 and findBetasApprox3,
\* beta1 * beta2 <= 0 when B[1] < 0 and beta1 * beta2 >= 0 otherwise, and
\* the components the variant does not populate are zero (beta3 and beta4
\* for Approx2, beta4 for Approx3).
C26_SeedSignFollowsCrossTerm ==
  (seedPc = "done" /\ seedArgs.variant \in {2, 3}) =>
    LET pr == Product(seedBetas[0], seedBetas[1])
    IN  /\ IF IsNegative(seedArgs.B[1])
           THEN IsNegative(pr) \/ IsZero(pr)
           ELSE IsPositive(pr) \/ IsZero(pr)
        /\ IsZero(seedBetas[3])
        /\ seedArgs.variant = 2 => IsZero(seedBetas[2])

\* C29: for every finite solution B, each of the three variants leaves
\* four finite betas, also when B[0] is 0.
C29_SeedsFiniteForFiniteSolution ==
  (seedPc = "done" /\ \A i \in DOMAIN seedArgs.B : seedArgs.B[i].cls = "finite") =>
    \A i \in 0..3 : seedBetas[i].cls = "finite"

-----------------------------------------------------------------------------
(* tracking.ePnP.estimatePose(cameraIntrisicParameters, keypointMatches),  *)
(* src/src/EPnP.js lines 9-31.  keypointMatches is the caller's array: the *)
(* function receives a reference to it, not a copy.                        *)

\* The largest number of matches in a caller's list.
MaxMatches == 5

\* The matches a list can hold (by name).
Matches == { "m1", "m2" }

MatchLists == UNION { [1..len -> Matches] : len \in 0..MaxMatches }

\* What the actions of the call leave alone.
EstFrame == UNCHANGED << solveVars, firstVars, fillVars, basisVars, jacVars,
                         signVars, seedVars,
                          trackerVars, kernelVars >>

\* A caller calls estimatePose with its list.
CallEstimatePose(list) ==
  /\ estPc = "idle"
  /\ keypointMatches' = list
  /\ matchesAtCall' = list
  /\ estI' = 0
  /\ controlPointsTaken' = << >>
  /\ estPc' = "pop"
  /\ EstFrame

\* Array.prototype.pop: the last element is removed from the array and
\* returned; an empty array stays empty and undefined is returned.
pop(array) ==
  IF Len(array) = 0
  THEN [array |-> array, value |-> "undefined"]
  ELSE [array |-> SubSeq(array, 1, Len(array) - 1), value |-> array[Len(array)]]

\* One round of for (var i = 0; i < 4; ++i): keypointMatch =
\* keypointMatches.pop(); its frameKeypoint and templateKeypoint are
\* pushed.  Reading .frameKeypoint of undefined throws a TypeError.
PopMatch ==
  /\ estPc = "pop"
  /\ estI < 4
  /\ LET out == pop(keypointMatches)
     IN  /\ keypointMatches' = out.array
         /\ IF out.value = "undefined"
            THEN /\ estPc' = "thrown"
                 /\ UNCHANGED << estI, controlPointsTaken >>
            ELSE /\ controlPointsTaken' = Append(controlPointsTaken, out.value)
                 /\ estI' = estI + 1
                 /\ UNCHANGED estPc
  /\ UNCHANGED matchesAtCall
  /\ EstFrame

\* The loop ends; createHomogeneousSystem is called with the list.
PopEnd ==
  /\ estPc = "pop"
  /\ estI = 4
  /\ estPc' = "system"
  /\ UNCHANGED << keypointMatches, matchesAtCall, estI, controlPointsTaken >>
  /\ EstFrame

\* createHomogeneousSystem and oneDimesionalKernel read the list and the
\* control points and write neither; numeric.svd inside returns or throws.
\* estimatePose has no return statement.
EstimateRest ==
  /\ estPc = "system"
  /\ estPc' \in { "returned", "thrown" }
  /\ UNCHANGED << keypointMatches, matchesAtCall, estI, controlPointsTaken >>
  /\ EstFrame

NextEst ==
  \/ \E list \in MatchLists : CallEstimatePose(list)
  \/ PopMatch
  \/ PopEnd
  \/ EstimateRest

SpecEst == Init /\ [][NextEst]_vars

\* C27: after an estimatePose call the caller's keypointMatches list has
\* the same length and the same elements in the same order as before it.
C27_MatchesListUnchanged ==
  estPc = "returned" => keypointMatches = matchesAtCall

-----------------------------------------------------------------------------
(* tracking.KeypointTracker, src/src/tracker/human/human.js: the           *)
(* constructor (lines 298-304) and track (lines 363-381).  estimatePose    *)
(* returns what tracking.EPnP.solve returns.                               *)

\* The largest number of track calls followed.
MaxTrackCalls == 6

\* The largest number of matched object keypoints of a frame.
MaxKeypoints == 3

\* The value undefined, and a pose object {R: R, t: t}.
Undefined == [kind |-> "undefined"]
PoseObject(rot, trans) == [kind |-> "pose", R |-> rot, t |-> trans]

\* var R = [[1, 0, 0],[0, 1, 0],[0, 0, 1]]; var t = [0, 0, 0];
\* this.previousPose_ = {R: R, t: t};
IdentityPose ==
  PoseObject(<< << 1, 0, 0 >>, << 0, 1, 0 >>, << 0, 0, 1 >> >>, << 0, 0, 0 >>)

\* What the actions on the tracker leave alone.
TrackerFrame == UNCHANGED << solveVars, firstVars, fillVars, basisVars, jacVars,
                             signVars, seedVars, estVars, kernelVars >>

\* new tracking.KeypointTracker(template)
NewKeypointTracker ==
  /\ trackerPc = "none"
  /\ previousPose_' = IdentityPose
  /\ trackerPc' = "constructed"
  /\ UNCHANGED << templateReady, trackerCalls, lastTrack >>
  /\ TrackerFrame

\* The mesh and the texture of the template have loaded: isReady() turns true.
TemplateLoaded ==
  /\ trackerPc = "constructed"
  /\ ~templateReady
  /\ templateReady' = TRUE
  /\ UNCHANGED << trackerPc, previousPose_, trackerCalls, lastTrack >>
  /\ TrackerFrame

\* What a tracking.EPnP.solve call hands to its caller: the function ends
\* without a return statement, so the call evaluates to undefined; or an
\* exception of a numeric.* primitive leaves it.
solveOutcomes == { [thrown |-> FALSE, value |-> Undefined], [thrown |-> TRUE, value |-> Undefined] }

\* track(pixels, width, height) for a frame in which matchKeypoints finds
\* n object keypoints.
Track(n) ==
  /\ trackerPc = "constructed"
  /\ trackerCalls < MaxTrackCalls
  /\ trackerCalls' = trackerCalls + 1
  /\ IF ~templateReady
     THEN \* if (!this.template_.isReady()) return;
          /\ lastTrack' = [path |-> "notReady", matches |-> n, before |-> previousPose_,
                           returned |-> Undefined]
          /\ UNCHANGED previousPose_
     ELSE IF n = 0
     THEN \* if (matches.objectKeypoints.length === 0) return;
          /\ lastTrack' = [path |-> "noMatches", matches |-> n, before |-> previousPose_,
                           returned |-> Undefined]
          /\ UNCHANGED previousPose_
     ELSE \* instance.previousPose_ = instance.estimatePose(matches);
          \* return instance.previousPose_;
          \E out \in solveOutcomes :
            IF out.thrown
            THEN /\ lastTrack' = [path |-> "thrown", matches |-> n, before |-> previousPose_,
                                  returned |-> Undefined]
                 /\ UNCHANGED previousPose_
            ELSE /\ previousPose_' = out.value
                 /\ lastTrack' = [path |-> "estimated", matches |-> n, before |-> previousPose_,
                                  returned |-> out.value]
  /\ UNCHANGED << trackerPc, templateReady >>
  /\ TrackerFrame

NextTracker ==
  \/ NewKeypointTracker
  \/ TemplateLoaded
  \/ \E n \in 0..MaxKeypoints : Track(n)

SpecTracker == Init /\ [][NextTracker]_vars

\* C28: once the tracker is constructed, previousPose_ is a pose object
\* holding a rotation R and a translation t, whatever track calls have been
\* made; it is the identity rotation and zero translation before the first
\* call, and a call that returned early left it as it was.
C28_PreviousPoseIsAPose ==
  trackerPc = "constructed" =>
    /\ previousPose_.kind = "pose"
    /\ trackerCalls = 0 => previousPose_ = IdentityPose
    /\ lastTrack.path \in {"notReady", "noMatches"} => previousPose_ = lastTrack.before

-----------------------------------------------------------------------------
(* tracking.ePnP.oneDimesionalKernel(matrix, controlPoints), src/src/      *)
(* EPnP.js lines 50-81.  An eigenvector holds the three coordinates of     *)
(* each of four control points (entries 0..11); the vectors of the calls   *)
(* followed are chosen so that every norm the code takes is an integer.    *)

\* The eigenvectors 8..11 that findNullEigenVectors can return.
EigenVectorValues ==
  { [idx \in 0..11 |-> << 0, 0, 0,  1, 0, 0,  2, 0, 0,  3, 0, 0 >>[idx + 1]],
    [idx \in 0..11 |-> << 0, 0, 0,  3, 4, 0,  0, 0, 0,  3, 4, 0 >>[idx + 1]],
    [idx \in 0..11 |-> << 0, 0, 0,  0, 0, 2,  0, 0, 2,  0, 0, 0 >>[idx + 1]] }

\* The control points of the caller (4 x 3, flat).
KernelControlPoints ==
  { [idx \in 0..11 |-> << 0, 0, 0,  3, 0, 0,  0, 4, 0,  3, 4, 0 >>[idx + 1]],
    [idx \in 0..11 |-> << 0, 0, 0,  1, 0, 0,  3, 0, 0,  6, 0, 0 >>[idx + 1]] }

KernelArguments ==
  { [eigenVectors |-> [k \in 0..11 |-> IF k >= 8 THEN last[k] ELSE [idx \in 0..11 |-> 0]],
     controlPoints |-> c] :
      last \in [8..11 -> EigenVectorValues], c \in KernelControlPoints }

\* What the actions of the call leave alone.
KernelFrame == UNCHANGED << solveVars, firstVars, fillVars, basisVars, jacVars,
                            signVars, seedVars, estVars, trackerVars >>

\* estimatePose calls oneDimesionalKernel; findNullEigenVectors has
\* returned a.eigenVectors; dividend = 0, divisor = 0.
CallOneDimesionalKernel(a) ==
  /\ kernelPc = "idle"
  /\ kernelArgs' = a
  /\ kernelK' = 8
  /\ dividend' = 0
  /\ divisor' = 0
  /\ kernelPc' = "loop"
  /\ UNCHANGED kernelResult
  /\ KernelFrame

\* tracking.Vector.subtract(x_i, x_j).squaredNorm() for the triples i and j
\* of the flat vector x.
squaredNorm(x, i, j) ==
    (x[3 * i] - x[3 * j]) * (x[3 * i] - x[3 * j])
  + (x[3 * i + 1] - x[3 * j + 1]) * (x[3 * i + 1] - x[3 * j + 1])
  + (x[3 * i + 2] - x[3 * j + 2]) * (x[3 * i + 2] - x[3 * j + 2])

\* tracking.Vector.subtract(x_i, x_j).norm(): Math.sqrt(squaredNorm)
norm(x, i, j) == CHOOSE r \in 0..squaredNorm(x, i, j) : r * r = squaredNorm(x, i, j)

RECURSIVE sumOverPairs(_, _, _)
\* The sum of term over the first m rounds of
\* for (i = 0; i < 4; i++) for (j = 0; j < 4; j++), from 0.
sumOverPairs(vec, cps, m) ==
  IF m = 0 THEN [dividend |-> 0, divisor |-> 0]
  ELSE LET prev == sumOverPairs(vec, cps, m - 1)
           i    == (m - 1) \div 4
           j    == (m - 1) % 4
       IN  [dividend |-> prev.dividend + norm(vec, i, j) * norm(cps, i, j),
            divisor  |-> prev.divisor + squaredNorm(vec, i, j)]

\* dividend and divisor at the end of a round for the eigenvector vec:
\* dividend = 0; divisor = 0; and the sixteen additions.
roundSums(vec, cps) == sumOverPairs(vec, cps, 16)

\* One round of for (var k = 8; k < 12; k++).
KernelRound ==
  /\ kernelPc = "loop"
  /\ kernelK < 12
  /\ LET sums == roundSums(kernelArgs.eigenVectors[kernelK], kernelArgs.controlPoints)
     IN  /\ dividend' = sums.dividend
         /\ divisor' = sums.divisor
  /\ kernelK' = kernelK + 1
  /\ UNCHANGED << kernelPc, kernelArgs, kernelResult >>
  /\ KernelFrame

\* vector.multiply(k) for k = numerator / denominator: data[i] * k
multiplyVector(vec, numerator, denominator) ==
  [num |-> [idx \in DOMAIN vec |-> vec[idx] * numerator], den |-> denominator]

\* return eigenVectors[10].multiply(dividend/divisor);
KernelReturn ==
  /\ kernelPc = "loop"
  /\ kernelK = 12
  /\ kernelResult' = multiplyVector(kernelArgs.eigenVectors[10], dividend, divisor)
  /\ kernelPc' = "returned"
  /\ UNCHANGED << kernelArgs, kernelK, dividend, divisor >>
  /\ KernelFrame

NextKernel ==
  \/ \E a \in KernelArguments : CallOneDimesionalKernel(a)
  \/ KernelRound
  \/ KernelReturn

SpecKernel == Init /\ [][NextKernel]_vars

\* C30: the vector that oneDimesionalKernel returns is eigenVectors[10]
\* scaled by the ratio dividend/divisor of the four control-point triples
\* of eigenVectors[10] itself (ratios compared by cross-multiplication).
C30_ScaleFromReturnedEigenvector ==
  kernelPc = "returned" =>
    LET own == roundSums(kernelArgs.eigenVectors[10], kernelArgs.controlPoints)
    IN  \A idx \in 0..11 :
          kernelResult.num[idx] * own.divisor =
            kernelArgs.eigenVectors[10][idx] * own.dividend * kernelResult.den

====
